---- MODULE Spec2Model ----
(***************************************************************************)
(* Model of atox996/opfs:                                                  *)
(*   - the caller side, createFileWorker / FileRO / FileRW / openFile      *)
(*     (src/src/opfs.ts lines 149-329),                                    *)
(*   - the worker side, self.onmessage and the handle registry             *)
(*     (src/src/file.worker.ts),                                           *)
(*   - the storage provider's synchronous handle, modelled at its          *)
(*     interface (byte content of a file, lock modes, quota),              *)
(*   - the task pool, createPromisePool (src/src/utils.ts), and the tree   *)
(*     operations that run over it: OPDir.copyTo / moveTo / remove         *)
(*     (src/unnamed/part_000),                                             *)
(*   - OPFile.copyTo (src/src/file.ts lines 509-569),                      *)
(*   - the path normaliser, parsePath (src/src/utils.ts lines 1-33).       *)
(* A call of the caller is identified by the index of the call (the code   *)
(* draws a fresh uuid per dispatched request).                             *)
(***************************************************************************)
EXTENDS Integers, Sequences, FiniteSets, TLC

\* ------------------------------------------------------------------ bounds
MaxReq == 4       \* requests dispatched to the worker over a run
MaxPending == 2   \* calls the caller leaves unanswered at a time
MaxFaults == 1    \* error events raised by the worker context
Quota == 3        \* bytes a file may hold before the provider refuses

Paths == {"a", "b"}
Modes == {"readwrite", "read-only"}
Ids == 1..MaxReq
Sessions == {1, 2}   \* the caller opens at most two files over a run
NoAt == -1

\* What the caller passes: byte sequences written, explicit offsets (NoAt: no
\* `at` option), sizes read and truncated to.
Data == {<<>>, <<1>>, <<2, 1>>}
Offsets == {NoAt, 0, 1}
Sizes == {0, 2}

Min(x, y) == IF x < y THEN x ELSE y

\* Tree operations and the task pool.
MaxUnits == 4     \* units handed to one pool

\* The concurrency limits the pool is run with: 5 is the default of
\* createPromisePool (and what the directory copy passes); 1 and 2 stand for a
\* limit below the number of units, at the sizes explored here.
Concurrency == {1, 2, 5}

\* Path strings.
MaxLen == 4       \* characters of a path string handed to parsePath

\* The characters of a path string: the separator, the dot of `.` and `..`,
\* a white-space character and a character of a name.
PathChars == {"/", ".", " ", "a"}
Strings == UNION {[1..n -> PathChars] : n \in 0..MaxLen}

\* Pools that can be running: the pool of plain units, the pool of a root
\* removal, and one pool per directory being copied (named by its path).
PoolIds == {<<"u">>, <<>>, <<"s">>, <<"s", "d">>}

\* ------------------------------------------------------------------ state
VARIABLES
  worker,          \* opfs.ts:160  worker # null
  openCount,       \* opfs.ts:161
  deferredMap,     \* opfs.ts:163  one entry per unanswered request, with what
                   \*              the awaiting method keeps in its frame
  nextId,          \* the ids drawn so far are 1..nextId-1 (uuid() never repeats)
  settles,         \* resolve/reject invocations on each request's deferred
  settled,         \* the resolve/reject/throw events of the latest caller-side step
  sess,            \* FileRO / FileRW objects, indexed by the openFile call that made them
  opens,           \* openFile calls made so far
  inbox,           \* request messages posted to the worker, not yet handled
  outbox,          \* response messages posted by the worker, not yet delivered
  opening,         \* open requests suspended at an await inside the worker
  accessHandleMap, \* file.worker.ts:12
  handles,         \* synchronous handles granted by the provider and not closed
  files,           \* storage provider: content of each file
  lastW,           \* per path: the latest change of content, if a write at offset 0
  faults,          \* error events delivered to worker.onerror so far
  fs,              \* storage provider: the directory tree (entry of each path)
  pools,           \* the running createPromisePool calls: iterator, workers, units
  op,              \* the tree operation the caller has invoked, and its outcome
  limit,           \* the concurrency the pools are created with
  fails,           \* the units whose own promise rejects (injected provider failures)
  parsed           \* a path string handed to parsePath, and what came of it

vars == <<worker, openCount, deferredMap, nextId, settles, settled, sess, opens,
          inbox, outbox, opening, accessHandleMap, handles, files, lastW, faults,
          fs, pools, op, limit, fails, parsed>>

bridgeVars == <<worker, openCount, deferredMap, nextId, settles, settled, sess, opens,
                inbox, outbox, opening, accessHandleMap, handles, files, lastW, faults>>
treeVars == <<fs, pools, op, limit, fails>>
pathVars == <<parsed>>

mainVars == <<worker, openCount, deferredMap, nextId, settles, settled, sess, opens, faults>>
workerVars == <<opening, accessHandleMap, handles, files, lastW>>

\* A request as the caller dispatches it ({id, action, path, args}) together with
\* what the awaiting method remembers (session, offset option, session closed?).
NoReq == [id |-> 0, action |-> "none", path |-> "", sess |-> 0, mode |-> "",
          atArg |-> NoAt, at |-> 0, size |-> 0, data |-> <<>>, closedAtCall |-> FALSE]
NoSess == [path |-> "", mode |-> "", prevReadOffset |-> 0, prevWriteOffset |-> 0,
           live |-> FALSE, closed |-> FALSE]
NoFile == [exists |-> FALSE, data |-> <<>>]
NoWrite == [set |-> FALSE, data |-> <<>>, fresh |-> FALSE, flushed |-> FALSE]

PendingIds == {d.id : d \in deferredMap}

BridgeIdle ==
  /\ worker = FALSE
  /\ openCount = 0
  /\ deferredMap = {}
  /\ nextId = 1
  /\ settles = [i \in Ids |-> 0]
  /\ settled = <<>>
  /\ sess = [i \in Sessions |-> NoSess]
  /\ opens = 0
  /\ inbox = <<>>
  /\ outbox = <<>>
  /\ opening = {}
  /\ accessHandleMap = [p \in Paths |-> 0]
  /\ handles = {}
  /\ files = [p \in Paths |-> NoFile]
  /\ lastW = [p \in Paths |-> NoWrite]
  /\ faults = 0

\* No path string has been handed to parsePath.
\* (a string is the sequence of its characters; a result of parsePath has the
\* segments of `parents`, the `name`, <<>> for undefined, and `fullPath`)
NoParse == [name |-> <<>>, parents |-> <<>>, fullPath |-> <<>>]
NoParsed == [pc |-> "idle", path |-> <<>>, first |-> NoParse, second |-> NoParse]

PathIdle == parsed = NoParsed

\* A pool that has not been created.
NoPool == [on |-> FALSE, ver |-> 0, dest |-> <<>>, tasks |-> <<>>, next |-> 0,
           st |-> <<>>, starts |-> <<>>, w |-> <<>>, nextAtFailure |-> 0]

\* utils.ts:88, `concurrency = 5`
DefaultConcurrency == 5

\* The paths of the directory tree: a source directory s and a destination t at
\* the top level, files f and g and a sub-directory d below them.
FsPaths ==
  {<<r>> : r \in {"s", "t"}}
    \cup {<<r, c>> : r \in {"s", "t"}, c \in {"f", "g", "d"}}
    \cup {<<r, "d", c>> : r \in {"s", "t"}, c \in {"f", "g"}}

NoEntry == [kind |-> "none", data |-> 0]
DirEntry == [kind |-> "directory", data |-> 0]
FileEntry(n) == [kind |-> "file", data |-> n]

\* No tree operation has been invoked.
\* (before: the tree as it was when the operation was invoked;
\*  target: the file a file copy writes, once it is resolved)
NoOp == [kind |-> "none", pc |-> "idle", src |-> <<>>, dest |-> <<>>, shape |-> "",
         outcome |-> "", failures |-> {}, before |-> [p \in FsPaths |-> NoEntry],
         target |-> <<>>]

TreeIdle ==
  /\ fs = [p \in FsPaths |-> NoEntry]
  /\ pools = [id \in PoolIds |-> NoPool]
  /\ op = NoOp
  /\ limit = DefaultConcurrency
  /\ fails = {}

Init == BridgeIdle /\ TreeIdle /\ PathIdle

\* ------------------------------------------- the provider's synchronous handle
Zeros(n) == [i \in 1..n |-> 0]

\* FileSystemSyncAccessHandle.read(buffer, {at}): the bytes actually read,
\* as bufferTransfer cuts the buffer to them.
ahRead(content, size, at) ==
  IF at >= Len(content) THEN <<>>
  ELSE SubSeq(content, at + 1, Min(at + size, Len(content)))

\* (variant: the bytes are appended, whatever the offset)
ahWriteAppend(content, data, at) == content \o data

\* FileSystemSyncAccessHandle.write(buffer, {at}): the content afterwards.
ahWrite(content, data, at) ==
  LET base == IF at > Len(content) THEN content \o Zeros(at - Len(content)) ELSE content
      tail == IF at + Len(data) < Len(base)
              THEN SubSeq(base, at + Len(data) + 1, Len(base)) ELSE <<>>
  IN SubSeq(base, 1, at) \o data \o tail

\* FileSystemSyncAccessHandle.truncate(newSize): the content afterwards.
ahTruncate(content, newSize) ==
  IF newSize <= Len(content) THEN SubSeq(content, 1, newSize)
  ELSE content \o Zeros(newSize - Len(content))

\* createSyncAccessHandle(options): may a handle of this mode be granted on the
\* path, given the handles that are open on it?
LockFree(p, mode) ==
  \A h \in handles : h.path = p => (mode = "read-only" /\ h.mode = "read-only")

\* ------------------------------------------------------------ caller side
\* (variant: `options?.at || prev`, which takes an explicit offset 0 for none)
OffsetUsedOr(atArg, prev) == IF atArg # NoAt /\ atArg # 0 THEN atArg ELSE prev

\* opfs.ts:258 and :295, `options?.at ?? this.prev...Offset`
OffsetUsed(atArg, prev) == IF atArg # NoAt THEN atArg ELSE prev

\* The members of FileRO (read-only sessions) and FileRW (all other modes).
Methods(mode) ==
  IF mode = "read-only" THEN {"read", "getSize", "close"}
  ELSE {"read", "getSize", "close", "write", "truncate", "flush"}

\* opfs.ts:326-328, the object openFile builds once the open has resolved.
NewSession(path, mode) ==
  [path |-> path, mode |-> mode, prevReadOffset |-> 0, prevWriteOffset |-> 0,
   live |-> TRUE, closed |-> FALSE]

\* One resolve / reject / throw, as the caller observes it.
\* (wr0: the write cursor the session had when the event happened)
Event(r, how, n) ==
  [id |-> r.id, action |-> r.action, path |-> r.path, sess |-> r.sess, atArg |-> r.atArg, at |-> r.at,
   size |-> r.size, closedAtCall |-> r.closedAtCall, how |-> how, n |-> n,
   wr0 |-> IF r.sess \in Sessions THEN sess[r.sess].prevWriteOffset ELSE 0]

\* opfs.ts:177-187: the part of send after the worker check.
Dispatch(r) ==
  LET q == [r EXCEPT !.id = nextId] IN
  /\ nextId <= MaxReq
  /\ nextId' = nextId + 1
  /\ deferredMap' = deferredMap \cup {q}
  /\ inbox' = Append(inbox, q)
  /\ settled' = <<>>

\* (variant: the request is stored in the table before the worker is checked)
SendThrowsAfterStoring(r) ==
  /\ settled' = <<Event(r, "InvalidStateError", 0)>>
  /\ deferredMap' = deferredMap \cup {[r EXCEPT !.id = nextId]}
  /\ UNCHANGED <<nextId, inbox>>

\* opfs.ts:172-176: send with no worker throws before anything is stored or posted.
SendThrows(r) ==
  /\ settled' = <<Event(r, "InvalidStateError", 0)>>
  /\ UNCHANGED <<nextId, deferredMap, inbox>>

CanCall == Cardinality(deferredMap) < MaxPending

\* (variant: only the first open creates the worker)
CallOpenCreatesOnce(p, mode) ==
  /\ CanCall
  /\ opens < Cardinality(Sessions)
  /\ opens' = opens + 1
  /\ worker' = (worker \/ opens = 0)
  /\ LET r == [NoReq EXCEPT !.action = "open", !.path = p, !.mode = mode,
                            !.sess = opens + 1]
     IN IF worker \/ opens = 0 THEN Dispatch(r) ELSE SendThrows(r)
  /\ UNCHANGED <<openCount, settles, sess, outbox, faults>>
  /\ UNCHANGED workerVars
  /\ UNCHANGED <<treeVars, pathVars>>

\* openFile(path, {mode}) up to its await: fileWorker.open creates the worker
\* when there is none, then sends "open".
CallOpen(p, mode) ==
  /\ CanCall
  /\ opens < Cardinality(Sessions)
  /\ opens' = opens + 1
  /\ worker' = TRUE
  /\ Dispatch([NoReq EXCEPT !.action = "open", !.path = p, !.mode = mode,
                            !.sess = opens + 1])
  /\ UNCHANGED <<openCount, settles, sess, outbox, faults>>
  /\ UNCHANGED workerVars
  /\ UNCHANGED <<treeVars, pathVars>>

\* new FileRO(fullPath) / new FileRW(fullPath) (opfs.ts:243, :279): the exported
\* classes build a session object without opening anything.
NewFile(p, mode) ==
  /\ opens < Cardinality(Sessions)
  /\ opens' = opens + 1
  /\ sess' = [sess EXCEPT ![opens + 1] = NewSession(p, mode)]
  /\ settled' = <<>>
  /\ UNCHANGED <<worker, openCount, deferredMap, nextId, settles, inbox, outbox, faults>>
  /\ UNCHANGED workerVars
  /\ UNCHANGED <<treeVars, pathVars>>

\* A method of a session up to its await.
CallIO(s, r) ==
  /\ CanCall
  /\ sess[s].live
  /\ r.action \in Methods(sess[s].mode)
  /\ IF worker THEN Dispatch(r) ELSE SendThrows(r)
  /\ UNCHANGED <<worker, openCount, settles, sess, opens, outbox, faults>>
  /\ UNCHANGED workerVars
  /\ UNCHANGED <<treeVars, pathVars>>

\* FileRO.read(size, {at}?)
CallRead(s, size, atArg) ==
  CallIO(s, [NoReq EXCEPT !.action = "read", !.path = sess[s].path, !.sess = s,
                          !.size = size, !.atArg = atArg,
                          !.at = OffsetUsed(atArg, sess[s].prevReadOffset),
                          !.closedAtCall = sess[s].closed])

\* FileRW.write(data, {at}?)
CallWrite(s, data, atArg) ==
  CallIO(s, [NoReq EXCEPT !.action = "write", !.path = sess[s].path, !.sess = s,
                          !.data = data, !.atArg = atArg,
                          !.at = OffsetUsed(atArg, sess[s].prevWriteOffset),
                          !.closedAtCall = sess[s].closed])

\* FileRW.truncate(newSize)
CallTruncate(s, newSize) ==
  CallIO(s, [NoReq EXCEPT !.action = "truncate", !.path = sess[s].path, !.sess = s,
                          !.size = newSize, !.closedAtCall = sess[s].closed])

\* FileRO.getSize(), FileRW.flush(), FileRO.close()
CallPlain(s, action) ==
  /\ action \in {"getSize", "flush", "close"}
  /\ CallIO(s, [NoReq EXCEPT !.action = action, !.path = sess[s].path, !.sess = s,
                             !.closedAtCall = sess[s].closed])

\* (variant: the write cursor always moves to newSize)
ClampedAlways(prev, newSize) == newSize

\* opfs.ts:309, the write cursor after a truncate to newSize.
Clamped(prev, newSize) == IF prev > newSize THEN newSize ELSE prev

\* (variant: the cursors are set to the bytes transferred, the offset forgotten)
ContinueBytesOnly(ss, r, m) ==
  LET s == r.sess IN
  CASE r.action = "open" -> [ss EXCEPT ![s] = [path |-> r.path, mode |-> r.mode,
                                                prevReadOffset |-> 0, prevWriteOffset |-> 0,
                                                live |-> TRUE, closed |-> FALSE]]
    [] r.action = "read" -> [ss EXCEPT ![s].prevReadOffset = Len(m.bytes)]
    [] r.action = "write" -> [ss EXCEPT ![s].prevWriteOffset = m.num]
    [] r.action = "truncate" ->
         [ss EXCEPT ![s].prevWriteOffset = IF @ > r.size THEN r.size ELSE @]
    [] r.action = "close" -> [ss EXCEPT ![s].closed = TRUE]
    [] OTHER -> ss

\* What the awaiting method does with a resolved response (opfs.ts:260, :299,
\* :309, :326-328); `closed` records that the session's close has completed.
Continue(ss, r, m) ==
  LET s == r.sess IN
  CASE r.action = "open" -> [ss EXCEPT ![s] = NewSession(r.path, r.mode)]
    [] r.action = "read" ->
         [ss EXCEPT ![s].prevReadOffset = r.at + Len(m.bytes)]
    [] r.action = "write" ->
         [ss EXCEPT ![s].prevWriteOffset = r.at + m.num]
    [] r.action = "truncate" ->
         [ss EXCEPT ![s].prevWriteOffset = Clamped(@, r.size)]
    [] r.action = "close" -> [ss EXCEPT ![s].closed = TRUE]
    [] OTHER -> ss

\* (variant: the method goes on after an error response as after a result)
ResumedAlways(ss, r, m) == Continue(ss, r, m)

\* The sessions after the awaiting method was handed the response m: a
\* rejection leaves the method at its await (opfs.ts:259, :296, :308, :325), a
\* result lets it continue.
Resumed(ss, r, m) == IF m.err = "" THEN Continue(ss, r, m) ELSE ss

\* opfs.ts:204-206: the value the deferred of the answered request is settled with.
Settled(m) == IF m.err # "" THEN m.err ELSE "ok"

\* (variant: every response but that to an open counts down)
CountedDownUnlessOpen(action, count) ==
  IF action = "open" THEN count + 1 ELSE count - 1

\* opfs.ts:208-211: the open count after a response to `action`.
Counted(action, count) ==
  IF action = "open" THEN count + 1
  ELSE IF action = "close" THEN count - 1
  ELSE count

\* (variant: the worker is torn down only once the count has gone below zero)
TearsDownBelowZero(action, count) == action = "close" /\ count < 0

\* opfs.ts:212: is the worker torn down after a response to `action`?
TearsDown(action, count) == action = "close" /\ count <= 0

\* opfs.ts:216-220, the value the pending requests are rejected with at teardown.
TeardownReason == "AbortError"

\* opfs.ts:226, the value the pending requests are rejected with at a fault:
\* the ErrorEvent itself.
FaultReason == "ErrorEvent"

\* (variant: the answered request's entry stays in the table)
TakenNot(map, id) == map

\* opfs.ts:203: the table after the answered request's entry is taken out.
Taken(map, id) == {d \in map : d.id # id}

\* The entries of a table in the order the for-of loops of opfs.ts:216 and :226
\* visit them (insertion order, which is the order of the ids).
RECURSIVE InOrder(_)
InOrder(map) ==
  IF map = {} THEN <<>>
  ELSE LET d == CHOOSE x \in map : \A y \in map : x.id <= y.id
       IN <<d>> \o InOrder(map \ {d})

\* (variant: the opens still pending are left out of the rejection)
RejectAllButOpens(map, how) ==
  LET seq == SelectSeq(InOrder(map), LAMBDA d : d.action # "open")
  IN [k \in 1..Len(seq) |-> Event(seq[k], how, 0)]

\* The events of rejecting every entry of a table with one reason
\* (opfs.ts:216-219 and :226-227).
RejectAll(map, how) ==
  LET seq == InOrder(map) IN [k \in 1..Len(seq) |-> Event(seq[k], how, 0)]

\* The invocation counts after the events evs.
Invoked(cnt, evs) ==
  [i \in Ids |-> cnt[i] + Cardinality({k \in 1..Len(evs) : evs[k].id = i})]

\* (variant: the open count is adjusted before the pending request is looked up)
DeliverCountsFirst ==
  /\ outbox # <<>>
  /\ LET m == Head(outbox) IN
     IF m.id \notin PendingIds
     THEN /\ outbox' = Tail(outbox)
          /\ settled' = <<>>
          /\ openCount' = Counted(m.action, openCount)
          /\ UNCHANGED <<worker, deferredMap, settles, sess,
                         inbox, opening, accessHandleMap, handles>>
     ELSE LET r == CHOOSE d \in deferredMap : d.id = m.id
              map1 == Taken(deferredMap, m.id)
              count1 == Counted(m.action, openCount)
              tear == TearsDown(m.action, count1)
              evs == <<Event(r, Settled(m), IF r.action = "read" THEN Len(m.bytes) ELSE m.num)>>
                     \o (IF tear THEN RejectAll(map1, TeardownReason) ELSE <<>>)
          IN /\ settled' = evs
             /\ settles' = Invoked(settles, evs)
             /\ sess' = Resumed(sess, r, m)
             /\ IF tear
                THEN /\ worker' = FALSE
                     /\ openCount' = 0
                     /\ deferredMap' = {}
                     /\ inbox' = <<>>
                     /\ outbox' = <<>>
                     /\ opening' = {}
                     /\ accessHandleMap' = [p \in Paths |-> 0]
                     /\ handles' = {}
                ELSE /\ openCount' = count1
                     /\ deferredMap' = map1
                     /\ outbox' = Tail(outbox)
                     /\ UNCHANGED <<worker, inbox, opening, accessHandleMap, handles>>
  /\ UNCHANGED <<nextId, opens, files, lastW, faults>>
  /\ UNCHANGED <<treeVars, pathVars>>

\* worker.onmessage (opfs.ts:196-224) followed by the continuation of the
\* method that awaited the answered request.
Deliver ==
  /\ outbox # <<>>
  /\ LET m == Head(outbox) IN
     IF m.id \notin PendingIds
     THEN /\ outbox' = Tail(outbox)
          /\ settled' = <<>>
          /\ UNCHANGED <<worker, openCount, deferredMap, settles, sess,
                         inbox, opening, accessHandleMap, handles>>
     ELSE LET r == CHOOSE d \in deferredMap : d.id = m.id
              map1 == Taken(deferredMap, m.id)
              count1 == Counted(m.action, openCount)
              tear == TearsDown(m.action, count1)
              evs == <<Event(r, Settled(m), IF r.action = "read" THEN Len(m.bytes) ELSE m.num)>>
                     \o (IF tear THEN RejectAll(map1, TeardownReason) ELSE <<>>)
          IN /\ settled' = evs
             /\ settles' = Invoked(settles, evs)
             /\ sess' = Resumed(sess, r, m)
             /\ IF tear
                THEN /\ worker' = FALSE
                     /\ openCount' = 0
                     /\ deferredMap' = {}
                     /\ inbox' = <<>>
                     /\ outbox' = <<>>
                     /\ opening' = {}
                     /\ accessHandleMap' = [p \in Paths |-> 0]
                     /\ handles' = {}
                ELSE /\ openCount' = count1
                     /\ deferredMap' = map1
                     /\ outbox' = Tail(outbox)
                     /\ UNCHANGED <<worker, inbox, opening, accessHandleMap, handles>>
  /\ UNCHANGED <<nextId, opens, files, lastW, faults>>
  /\ UNCHANGED <<treeVars, pathVars>>

\* (variant: the handler rejects the pending requests and keeps their entries)
FaultKeepsTable ==
  /\ worker
  /\ faults < MaxFaults
  /\ faults' = faults + 1
  /\ settled' = RejectAll(deferredMap, FaultReason)
  /\ settles' = Invoked(settles, RejectAll(deferredMap, FaultReason))
  /\ UNCHANGED <<worker, openCount, deferredMap, nextId, sess, opens, inbox, outbox>>
  /\ UNCHANGED workerVars
  /\ UNCHANGED <<treeVars, pathVars>>

\* worker.onerror (opfs.ts:225-228)
Fault ==
  /\ worker
  /\ faults < MaxFaults
  /\ faults' = faults + 1
  /\ settled' = RejectAll(deferredMap, FaultReason)
  /\ settles' = Invoked(settles, RejectAll(deferredMap, FaultReason))
  /\ deferredMap' = {}
  /\ UNCHANGED <<worker, openCount, nextId, sess, opens, inbox, outbox>>
  /\ UNCHANGED workerVars
  /\ UNCHANGED <<treeVars, pathVars>>

\* ------------------------------------------------------------ worker side
Ok(r, bytes, num) ==
  [id |-> r.id, action |-> r.action, err |-> "", bytes |-> bytes, num |-> num]
\* (variant: the error response does not carry the id of the request)
ErrWithoutId(r, name) ==
  [id |-> 0, action |-> r.action, err |-> name, bytes |-> <<>>, num |-> 0]

Err(r, name) ==
  [id |-> r.id, action |-> r.action, err |-> name, bytes |-> <<>>, num |-> 0]

\* (variant: a response overtakes the responses posted before it)
ReplyAhead(box, m) == <<m>> \o box

\* (variant: the catch block posts nothing)
ReplyOnlyResults(box, m) == IF m.err # "" THEN box ELSE Append(box, m)

\* self.postMessage (file.worker.ts:57-60 and :63-67): the outbox after the
\* response m is posted.
Reply(box, m) == Append(box, m)
Post(m) == outbox' = Reply(outbox, m)

\* The storage provider refuses content beyond the quota.
OverQuota(n) == n > Quota

\* file.worker.ts:35-40: "open" up to the first await; getFileSystemHandle with
\* create: true makes the file when it is absent.
WorkerOpenBegin ==
  /\ inbox # <<>>
  /\ Head(inbox).action = "open"
  /\ LET r == Head(inbox)  p == r.path IN
     /\ inbox' = Tail(inbox)
     /\ opening' = opening \cup {r}
     /\ files' = IF files[p].exists THEN files
                 ELSE [files EXCEPT ![p] = [exists |-> TRUE, data |-> <<>>]]
  /\ UNCHANGED mainVars
  /\ UNCHANGED <<treeVars, pathVars>>
  /\ UNCHANGED <<outbox, accessHandleMap, handles, lastW>>

\* file.worker.ts:41-43 and :57-67: createSyncAccessHandle settles, the handle
\* is registered under the path, the response is posted.
WorkerOpenFinish(r) ==
  /\ r \in opening
  /\ opening' = opening \ {r}
  /\ IF LockFree(r.path, r.mode)
     THEN /\ handles' = handles \cup {[hid |-> r.id, path |-> r.path, mode |-> r.mode]}
          /\ accessHandleMap' = [accessHandleMap EXCEPT ![r.path] = r.id]
          /\ Post(Ok(r, <<>>, 0))
     ELSE /\ Post(Err(r, "NoModificationAllowedError"))
          /\ UNCHANGED <<handles, accessHandleMap>>
  /\ UNCHANGED mainVars
  /\ UNCHANGED <<treeVars, pathVars>>
  /\ UNCHANGED <<inbox, files, lastW>>

\* The mode of the registered handle ah.
ModeOf(ah) == (CHOOSE h \in handles : h.hid = ah).mode

\* The record of a successful write: was it at offset 0, and did the file hold
\* no more bytes than the write brought?
Written(content, r) ==
  IF r.at = 0
  THEN [set |-> TRUE, data |-> r.data, fresh |-> Len(content) <= Len(r.data),
        flushed |-> FALSE]
  ELSE NoWrite

\* (variant: close leaves the registry as it is)
DeletedNot(map, p) == map

\* file.worker.ts:25, accessHandleMap.delete(path): the registry without the
\* entry of path p.
Deleted(map, p) == [map EXCEPT ![p] = 0]

\* file.worker.ts:14-27, the action table applied to the handle ah of path p:
\* the response to request r and the provider state afterwards.
Respond(r, ah, p) ==
  LET content == files[p].data IN
  CASE r.action = "read" ->
         /\ Post(Ok(r, ahRead(content, r.size, r.at), 0))
         /\ UNCHANGED <<files, handles, accessHandleMap, lastW>>
    [] r.action = "write" ->
         IF ModeOf(ah) = "read-only"
         THEN /\ Post(Err(r, "NoModificationAllowedError"))
              /\ UNCHANGED <<files, handles, accessHandleMap, lastW>>
         ELSE IF OverQuota(r.at + Len(r.data))
         THEN /\ Post(Err(r, "QuotaExceededError"))
              /\ UNCHANGED <<files, handles, accessHandleMap, lastW>>
         ELSE /\ files' = [files EXCEPT ![p].data = ahWrite(content, r.data, r.at)]
              /\ lastW' = [lastW EXCEPT ![p] = Written(content, r)]
              /\ Post(Ok(r, <<>>, Len(r.data)))
              /\ UNCHANGED <<handles, accessHandleMap>>
    [] r.action = "truncate" ->
         IF ModeOf(ah) = "read-only"
         THEN /\ Post(Err(r, "NoModificationAllowedError"))
              /\ UNCHANGED <<files, handles, accessHandleMap, lastW>>
         ELSE IF OverQuota(r.size)
         THEN /\ Post(Err(r, "QuotaExceededError"))
              /\ UNCHANGED <<files, handles, accessHandleMap, lastW>>
         ELSE /\ files' = [files EXCEPT ![p].data = ahTruncate(content, r.size)]
              /\ lastW' = [lastW EXCEPT ![p] = NoWrite]
              /\ Post(Ok(r, <<>>, 0))
              /\ UNCHANGED <<handles, accessHandleMap>>
    [] r.action = "flush" ->
         /\ lastW' = [lastW EXCEPT ![p].flushed = lastW[p].set]
         /\ Post(Ok(r, <<>>, 0))
         /\ UNCHANGED <<files, handles, accessHandleMap>>
    [] r.action = "getSize" ->
         /\ Post(Ok(r, <<>>, Len(content)))
         /\ UNCHANGED <<files, handles, accessHandleMap, lastW>>
    [] r.action = "close" ->
         /\ handles' = {h \in handles : h.hid # ah}
         /\ accessHandleMap' = Deleted(accessHandleMap, p)
         /\ Post(Ok(r, <<>>, 0))
         /\ UNCHANGED <<files, lastW>>
    [] OTHER ->
         /\ Post(Err(r, "InvalidAction"))
         /\ UNCHANGED <<files, handles, accessHandleMap, lastW>>

\* (variant: the lookup of the handle is not checked)
NoAccessHandleUnchecked(ah) == FALSE

\* file.worker.ts:45-46, `if (!ah)`: the registry has no handle for the path.
NoAccessHandle(ah) == ah = 0

\* file.worker.ts:44-54 and :57-67: any request other than "open".
WorkerHandle ==
  /\ inbox # <<>>
  /\ Head(inbox).action # "open"
  /\ LET r == Head(inbox)  ah == accessHandleMap[r.path] IN
     /\ inbox' = Tail(inbox)
     /\ IF NoAccessHandle(ah)
        THEN /\ Post(Err(r, "InvalidAccessHandle"))
             /\ UNCHANGED <<files, handles, accessHandleMap, lastW>>
        ELSE Respond(r, ah, r.path)
  /\ UNCHANGED mainVars
  /\ UNCHANGED <<treeVars, pathVars>>
  /\ UNCHANGED opening

\* ------------------------------------------------------------ the task pool
\* A unit of a pool is "new" until a worker claims it, then "started" (and "made"
\* once a copy has created its target), and at last "ok" or "failed".
Unit == [kind |-> "unit", name |-> "u"]

\* (variant: one worker per unit, whatever the limit)
createPromisePoolAll(tasks, concurrency) ==
  [next |-> Len(tasks),
   st |-> [i \in 1..Len(tasks) |-> "started"],
   starts |-> [i \in 1..Len(tasks) |-> 1],
   w |-> [j \in 1..Len(tasks) |-> [i |-> j, st |-> "busy"]]]

\* (variant: the iterator is advanced once more than units were started)
createPromisePoolSkip(tasks, concurrency) ==
  LET n == Min(concurrency, Len(tasks)) IN
  [next |-> IF n < Len(tasks) THEN n + 1 ELSE n,
   st |-> [i \in 1..Len(tasks) |-> IF i <= n THEN "started" ELSE "new"],
   starts |-> [i \in 1..Len(tasks) |-> IF i <= n THEN 1 ELSE 0],
   w |-> [j \in 1..n |-> [i |-> j, st |-> "busy"]]]

\* createPromisePool(tasks, concurrency) up to its return (utils.ts:86-106,
\* :323-343): min(concurrency, tasks.length) workers are made, and each runs
\* poolTask synchronously up to its first await, which takes the next unit
\* from the shared iterator and starts it.
createPromisePool(tasks, concurrency) ==
  LET n == Min(concurrency, Len(tasks)) IN
  [next |-> n,
   st |-> [i \in 1..Len(tasks) |-> IF i <= n THEN "started" ELSE "new"],
   starts |-> [i \in 1..Len(tasks) |-> IF i <= n THEN 1 ELSE 0],
   w |-> [j \in 1..n |-> [i |-> j, st |-> "busy"]]]

\* The pool a caller holds after createPromisePool(tasks, limit): ver tells the
\* caller's way of awaiting it (1: Promise.allSettled over the workers,
\* 2: Promise.all inside the pool), dest the directory its copies go to.
NewPool(ver, dest, tasks) ==
  LET c == createPromisePool(tasks, limit) IN
  [on |-> TRUE, ver |-> ver, dest |-> dest, tasks |-> tasks, next |-> c.next,
   st |-> c.st, starts |-> c.starts, w |-> c.w, nextAtFailure |-> 0]

\* The units of a pool that have been started and have not finished.
Running(pl) == {i \in 1..Len(pl.tasks) : pl.st[i] \in {"started", "made"}}

\* Every worker of the pool has returned or thrown.
WorkersFinished(pl) == \A j \in 1..Len(pl.w) : pl.w[j].st # "busy"
SomeWorkerFailed(pl) == \E j \in 1..Len(pl.w) : pl.w[j].st = "failed"

\* Does the i-th unit of pool id reject by itself?
Fails(id, i) == [pool |-> id, i |-> i] \in fails

\* (variant: a worker stops claiming once any worker of the pool has failed)
poolTaskStopsAll(id, j) ==
  LET pl == pools[id]  i == pl.w[j].i IN
  /\ pl.on
  /\ j \in 1..Len(pl.w)
  /\ pl.w[j].st = "busy"
  /\ pl.st[i] \in {"ok", "failed"}
  /\ pools' = [pools EXCEPT ![id] =
       IF pl.st[i] = "failed"
       THEN [pl EXCEPT !.w[j].st = "failed",
                       !.nextAtFailure = IF @ = 0 THEN pl.next ELSE @]
       ELSE IF pl.next < Len(pl.tasks) /\ ~SomeWorkerFailed(pl)
       THEN [pl EXCEPT !.next = @ + 1, !.w[j].i = pl.next + 1,
                       !.st[pl.next + 1] = "started", !.starts[pl.next + 1] = @ + 1]
       ELSE [pl EXCEPT !.w[j].st = "done"]]
  /\ UNCHANGED <<fs, op, limit, fails>>
  /\ UNCHANGED <<bridgeVars, pathVars>>

\* poolTask (utils.ts:94-100, :331-337): worker j of pool id resumes after the
\* unit it awaited has settled. A rejected unit makes the await throw, which
\* ends the worker; otherwise the worker takes the next unit from the iterator
\* and starts it, or returns when the iterator is done.
\* (nextAtFailure: how many units had been claimed when a worker first failed)
poolTask(id, j) ==
  LET pl == pools[id]  i == pl.w[j].i IN
  /\ pl.on
  /\ j \in 1..Len(pl.w)
  /\ pl.w[j].st = "busy"
  /\ pl.st[i] \in {"ok", "failed"}
  /\ pools' = [pools EXCEPT ![id] =
       IF pl.st[i] = "failed"
       THEN [pl EXCEPT !.w[j].st = "failed",
                       !.nextAtFailure = IF @ = 0 THEN pl.next ELSE @]
       ELSE IF pl.next < Len(pl.tasks)
       THEN [pl EXCEPT !.next = @ + 1, !.w[j].i = pl.next + 1,
                       !.st[pl.next + 1] = "started", !.starts[pl.next + 1] = @ + 1]
       ELSE [pl EXCEPT !.w[j].st = "done"]]
  /\ UNCHANGED <<fs, op, limit, fails>>
  /\ UNCHANGED <<bridgeVars, pathVars>>

\* A caller hands k units to a pool.
RunPool(k) ==
  /\ op.kind = "none"
  /\ op' = [NoOp EXCEPT !.kind = "pool", !.pc = "pool"]
  /\ pools' = [pools EXCEPT ![<<"u">>] = NewPool(1, <<>>, [i \in 1..k |-> Unit])]
  /\ UNCHANGED <<fs, limit, fails>>
  /\ UNCHANGED <<bridgeVars, pathVars>>

\* The promise of a started unit settles: `await next.value()` (utils.ts:98).
UnitSettles(id, i) ==
  LET pl == pools[id] IN
  /\ pl.on
  /\ i \in 1..Len(pl.tasks)
  /\ pl.tasks[i].kind = "unit"
  /\ pl.st[i] = "started"
  /\ pools' = [pools EXCEPT ![id].st[i] = IF Fails(id, i) THEN "failed" ELSE "ok"]
  /\ UNCHANGED <<fs, op, limit, fails>>
  /\ UNCHANGED <<bridgeVars, pathVars>>

\* ---------------------------------------------------------- path normalisation
\* String.prototype.trim: the string without the white space at its two ends.
trim(str) ==
  LET keep == {i \in 1..Len(str) : str[i] # " "} IN
  IF keep = {} THEN <<>>
  ELSE SubSeq(str, CHOOSE i \in keep : \A j \in keep : i <= j,
                   CHOOSE i \in keep : \A j \in keep : j <= i)

\* String.prototype.split("/"): the pieces between the separators (one empty
\* piece for the empty string).
RECURSIVE split(_)
split(str) ==
  LET seps == {i \in 1..Len(str) : str[i] = "/"} IN
  IF seps = {} THEN <<str>>
  ELSE LET k == CHOOSE i \in seps : \A j \in seps : i <= j
       IN <<SubSeq(str, 1, k - 1)>> \o split(SubSeq(str, k + 1, Len(str)))

\* (variant: a `..` met with an empty stack is pushed like a name)
RECURSIVE stackOfPushesDots(_, _)
stackOfPushesDots(raw, stack) ==
  IF raw = <<>> THEN stack
  ELSE stackOfPushesDots(Tail(raw),
         IF Head(raw) = <<".">> THEN stack
         ELSE IF Head(raw) = <<".", ".">> /\ Len(stack) > 0
         THEN SubSeq(stack, 1, Len(stack) - 1)
         ELSE Append(stack, Head(raw)))

\* utils.ts:15-23, the loop over the segments: `.` is skipped, `..` pops the
\* stack unless it is empty, any other segment is pushed.
RECURSIVE stackOf(_, _)
stackOf(raw, stack) ==
  IF raw = <<>> THEN stack
  ELSE stackOf(Tail(raw),
         IF Head(raw) = <<".">> THEN stack
         ELSE IF Head(raw) = <<".", ".">>
         THEN IF Len(stack) > 0 THEN SubSeq(stack, 1, Len(stack) - 1) ELSE stack
         ELSE Append(stack, Head(raw)))

\* `/${stack.join("/")}` (utils.ts:26)
RECURSIVE joined(_)
joined(stack) ==
  IF stack = <<>> THEN <<>> ELSE <<"/">> \o Head(stack) \o joined(Tail(stack))

\* parsePath (utils.ts:1-33)
parsePath(path) ==
  LET str == trim(IF path = <<>> THEN <<"/">> ELSE path)
      raw == SelectSeq(split(str), LAMBDA seg : Len(seg) > 0)
      stack == stackOf(raw, <<>>)
  IN [name |-> IF stack = <<>> THEN <<>> ELSE stack[Len(stack)],
      parents |-> IF stack = <<>> THEN <<>> ELSE SubSeq(stack, 1, Len(stack) - 1),
      fullPath |-> IF stack = <<>> THEN <<"/">> ELSE joined(stack)]

\* parsePath is applied to the path string the caller gave.
parsePathOfInput ==
  /\ parsed.pc = "given"
  /\ parsed' = [parsed EXCEPT !.pc = "parsed", !.first = parsePath(parsed.path)]
  /\ UNCHANGED <<bridgeVars, treeVars>>

\* parsePath is applied to the fullPath it produced (as getFileSystemHandle,
\* utils.ts:47, does to the fullPath of every OPFS object).
parsePathOfFullPath ==
  /\ parsed.pc = "parsed"
  /\ parsed' = [parsed EXCEPT !.pc = "reparsed",
                              !.second = parsePath(parsed.first.fullPath)]
  /\ UNCHANGED <<bridgeVars, treeVars>>

\* ------------------------------------------------------------ tree operations
\* The order in which a directory enumerates its entries.
ChildOrder == <<"s", "t", "f", "g", "d">>

\* OPDir.children(): the entries of the directory at path d, as the units built
\* from them.
children(d) ==
  LET names == SelectSeq(ChildOrder,
                 LAMBDA c : (d \o <<c>>) \in FsPaths /\ fs[d \o <<c>>].kind # "none")
  IN [k \in 1..Len(names) |-> [kind |-> fs[d \o <<names[k]>>].kind, name |-> names[k]]]

IsPrefix(d, q) == Len(d) <= Len(q) /\ SubSeq(q, 1, Len(d)) = d

\* The entry the i-th unit of pool id copies, and the path it copies it to.
Source(id, i) == id \o <<pools[id].tasks[i].name>>
Target(id, i) == pools[id].dest \o <<pools[id].tasks[i].name>>

\* OPFile.copyTo(handle) up to the creation of the target (file.ts:510-567):
\* the source must exist; getFileHandle(name, {create: true}) makes an empty
\* file unless there is one.
FileTaskMake(id, i) ==
  LET pl == pools[id] IN
  /\ pl.on
  /\ i \in 1..Len(pl.tasks)
  /\ pl.tasks[i].kind = "file"
  /\ pl.st[i] = "started"
  /\ IF Fails(id, i) \/ fs[Source(id, i)].kind # "file"
     THEN /\ pools' = [pools EXCEPT ![id].st[i] = "failed"]
          /\ UNCHANGED fs
     ELSE /\ pools' = [pools EXCEPT ![id].st[i] = "made"]
          /\ fs' = [fs EXCEPT ![Target(id, i)] = IF @.kind = "file" THEN @ ELSE FileEntry(0)]
  /\ UNCHANGED <<op, limit, fails>>
  /\ UNCHANGED <<bridgeVars, pathVars>>

\* OPFile.copyTo(handle), file.ts:568: the content of the source is piped into
\* the target, which replaces what the target held (stream(), file.ts:434-444,
\* is empty when the source is gone).
FileTaskPipe(id, i) ==
  LET pl == pools[id] IN
  /\ pl.on
  /\ i \in 1..Len(pl.tasks)
  /\ pl.tasks[i].kind = "file"
  /\ pl.st[i] = "made"
  /\ pools' = [pools EXCEPT ![id].st[i] = "ok"]
  /\ fs' = [fs EXCEPT ![Target(id, i)] =
              IF fs[Source(id, i)].kind = "file"
              THEN FileEntry(fs[Source(id, i)].data) ELSE FileEntry(0)]
  /\ UNCHANGED <<op, limit, fails>>
  /\ UNCHANGED <<bridgeVars, pathVars>>

\* The unit of a sub-directory up to the pool of its own copy.
\* ver 1 (part_000:157-160): the sub-directory is created in the destination
\*   and entry.copyTo(childDestHandle) enumerates the entry into it;
\* ver 2 (part_000:295): child.copyTo(targetDir) enumerates the entry into the
\*   destination directory itself.
DirTaskMake(id, i) ==
  LET pl == pools[id]  src == Source(id, i) IN
  /\ pl.on
  /\ i \in 1..Len(pl.tasks)
  /\ pl.tasks[i].kind = "directory"
  /\ pl.st[i] = "started"
  /\ IF Fails(id, i) \/ fs[src].kind # "directory"
     THEN /\ pools' = [pools EXCEPT ![id].st[i] = "failed"]
          /\ UNCHANGED fs
     ELSE IF pl.ver = 1
     THEN /\ fs' = [fs EXCEPT ![Target(id, i)] = DirEntry]
          /\ pools' = [pools EXCEPT ![id].st[i] = "made",
                                     ![src] = NewPool(1, Target(id, i), children(src))]
     ELSE /\ UNCHANGED fs
          /\ pools' = [pools EXCEPT ![id].st[i] = "made",
                                     ![src] = NewPool(2, pl.dest, children(src))]
  /\ UNCHANGED <<op, limit, fails>>
  /\ UNCHANGED <<bridgeVars, pathVars>>

\* How the promise a caller awaits on a pool stands.
\* ver 1: Promise.allSettled over the workers (part_000:164) fulfils once every
\*   worker has finished;
\* ver 2: Promise.all inside the pool (utils.ts:344) rejects as soon as one
\*   worker has failed and fulfils once every worker has returned.
PoolPromise(pl) ==
  IF pl.ver = 1
  THEN IF WorkersFinished(pl) THEN "fulfilled" ELSE "pending"
  ELSE IF SomeWorkerFailed(pl) THEN "rejected"
  ELSE IF WorkersFinished(pl) THEN "fulfilled" ELSE "pending"

\* The unit of a sub-directory settles with the copyTo it awaited.
DirTaskJoin(id, i) ==
  LET pl == pools[id] IN
  /\ pl.on
  /\ i \in 1..Len(pl.tasks)
  /\ pl.tasks[i].kind = "directory"
  /\ pl.st[i] = "made"
  /\ PoolPromise(pools[Source(id, i)]) # "pending"
  /\ pools' = [pools EXCEPT ![id].st[i] =
                 IF PoolPromise(pools[Source(id, i)]) = "fulfilled" THEN "ok" ELSE "failed"]
  /\ UNCHANGED <<fs, op, limit, fails>>
  /\ UNCHANGED <<bridgeVars, pathVars>>

\* OPDir.copyTo(dest) of part_000:113-165 is invoked on the directory s with
\* destination t, given as an OPDir, a path string or a directory handle (a
\* handle is a handle of an existing directory).
CallCopyTo(shape) ==
  /\ op.kind = "none"
  /\ shape = "handle" => fs[<<"t">>].kind = "directory"
  /\ op' = [NoOp EXCEPT !.kind = "copyTo", !.pc = "check", !.src = <<"s">>,
                        !.dest = <<"t">>, !.shape = shape, !.before = fs]
  /\ UNCHANGED <<fs, pools, limit, fails>>
  /\ UNCHANGED <<bridgeVars, pathVars>>

\* (variant: the destination is resolved with create: true before anything is checked)
copyToChecksLate ==
  /\ op.kind = "copyTo"
  /\ op.pc = "check"
  /\ fs' = [fs EXCEPT ![op.dest] = DirEntry]
  /\ IF fs[op.src].kind # "directory"
     THEN op' = [op EXCEPT !.pc = "done", !.outcome = "NotFoundError"]
     ELSE IF op.shape # "handle" /\ fs[op.dest].kind = "directory"
     THEN op' = [op EXCEPT !.pc = "done", !.outcome = "AlreadyExistsError"]
     ELSE op' = [op EXCEPT !.pc = "tasks"]
  /\ UNCHANGED <<pools, limit, fails>>
  /\ UNCHANGED <<bridgeVars, pathVars>>

\* part_000:116-150: the source must exist; a destination given as OPDir or
\* string must not exist and is then created; a handle is taken as it is.
copyToChecks ==
  /\ op.kind = "copyTo"
  /\ op.pc = "check"
  /\ IF fs[op.src].kind # "directory"
     THEN /\ op' = [op EXCEPT !.pc = "done", !.outcome = "NotFoundError"]
          /\ UNCHANGED fs
     ELSE IF op.shape # "handle" /\ fs[op.dest].kind = "directory"
     THEN /\ op' = [op EXCEPT !.pc = "done", !.outcome = "AlreadyExistsError"]
          /\ UNCHANGED fs
     ELSE /\ op' = [op EXCEPT !.pc = "tasks"]
          /\ fs' = [fs EXCEPT ![op.dest] = DirEntry]
  /\ UNCHANGED <<pools, limit, fails>>
  /\ UNCHANGED <<bridgeVars, pathVars>>

\* part_000:151-164: one unit per child, handed to the pool.
copyToTasks ==
  /\ op.kind = "copyTo"
  /\ op.pc = "tasks"
  /\ pools' = [pools EXCEPT ![op.src] = NewPool(1, op.dest, children(op.src))]
  /\ op' = [op EXCEPT !.pc = "await"]
  /\ UNCHANGED <<fs, limit, fails>>
  /\ UNCHANGED <<bridgeVars, pathVars>>

\* part_000:164-165: `await Promise.allSettled(...)` returns and copyTo
\* resolves with no value.
copyToSettles ==
  /\ op.kind = "copyTo"
  /\ op.pc = "await"
  /\ PoolPromise(pools[op.src]) = "fulfilled"
  /\ op' = [op EXCEPT !.pc = "done", !.outcome = "fulfilled"]
  /\ UNCHANGED <<fs, pools, limit, fails>>
  /\ UNCHANGED <<bridgeVars, pathVars>>

\* The tree without the entry at path d and everything below it
\* (removeEntry(name, {recursive: true})).
Removed(tree, d) == [q \in FsPaths |-> IF IsPrefix(d, q) THEN NoEntry ELSE tree[q]]

\* removeEntry of the top-level entry: the unit of a root removal.
RmTask(id, i) ==
  LET pl == pools[id] IN
  /\ pl.on
  /\ i \in 1..Len(pl.tasks)
  /\ pl.tasks[i].kind = "rm"
  /\ pl.st[i] = "started"
  /\ IF Fails(id, i)
     THEN /\ pools' = [pools EXCEPT ![id].st[i] = "failed"]
          /\ UNCHANGED fs
     ELSE /\ pools' = [pools EXCEPT ![id].st[i] = "ok"]
          /\ fs' = Removed(fs, id \o <<pl.tasks[i].name>>)
  /\ UNCHANGED <<op, limit, fails>>
  /\ UNCHANGED <<bridgeVars, pathVars>>

\* OPDir.moveTo(dest) of part_000:304-307 is invoked on the directory s with
\* destination t, given as an OPDir or as a directory handle.
CallMoveTo(shape) ==
  /\ op.kind = "none"
  /\ shape = "handle" => fs[<<"t">>].kind = "directory"
  /\ op' = [NoOp EXCEPT !.kind = "moveTo", !.pc = "copy", !.src = <<"s">>,
                        !.dest = <<"t">>, !.shape = shape, !.before = fs]
  /\ UNCHANGED <<fs, pools, limit, fails>>
  /\ UNCHANGED <<bridgeVars, pathVars>>

\* OPDir.remove() of part_000:256-279 is invoked on the root, on s or on s/d.
CallRemove(d) ==
  /\ op.kind = "none"
  /\ op' = [NoOp EXCEPT !.kind = "remove", !.pc = "remove", !.src = d, !.before = fs]
  /\ UNCHANGED <<fs, pools, limit, fails>>
  /\ UNCHANGED <<bridgeVars, pathVars>>

\* OPDir.copyTo of part_000:286-296, as moveTo calls it: the destination is
\* created unless it is a handle (no check of the source, none of the
\* destination), and one unit per child goes to the pool.
moveToCopy ==
  /\ op.kind = "moveTo"
  /\ op.pc = "copy"
  /\ fs' = IF op.shape = "handle" THEN fs ELSE [fs EXCEPT ![op.dest] = DirEntry]
  /\ pools' = [pools EXCEPT ![op.src] = NewPool(2, op.dest, children(op.src))]
  /\ op' = [op EXCEPT !.pc = "await"]
  /\ UNCHANGED <<limit, fails>>
  /\ UNCHANGED <<bridgeVars, pathVars>>

\* part_000:296 and :305: `await createPromisePool(tasks, 5)` settles; a
\* rejection rejects copyTo and with it moveTo, before remove is called.
moveToCopySettles ==
  /\ op.kind = "moveTo"
  /\ op.pc = "await"
  /\ PoolPromise(pools[op.src]) # "pending"
  /\ op' = IF PoolPromise(pools[op.src]) = "fulfilled"
           THEN [op EXCEPT !.pc = "remove"]
           ELSE [op EXCEPT !.pc = "done", !.outcome = "rejected"]
  /\ UNCHANGED <<fs, pools, limit, fails>>
  /\ UNCHANGED <<bridgeVars, pathVars>>

\* The units of a root removal (part_000:266-268).
RemovalTasks == LET c == children(<<>>) IN [k \in 1..Len(c) |-> [kind |-> "rm", name |-> c[k].name]]

\* (variant: a directory that cannot be resolved is reported as not found)
removeOfAbsentRejects == "NotFoundError"

\* part_000:261 and :277, `if (!dirHandle) return;`, `if (!parentHandle) return;`:
\* getFileSystemHandle (utils.ts:35-72) turns the NotFoundError of any segment
\* of the path, a missing parent included, into null, and remove() of a
\* directory that cannot be resolved returns with no value.
removeOfAbsent == "fulfilled"

\* OPDir.remove (part_000:256-279), called by the caller or by moveTo (:306).
\* The root hands one removeEntry per top-level entry to a pool; any other
\* directory is removed, with all below it, by its parent (a removal that the
\* provider refuses rejects and removes nothing).
remove ==
  /\ op.pc = "remove"
  /\ IF op.src = <<>>
     THEN /\ pools' = [pools EXCEPT ![<<>>] = NewPool(2, <<>>, RemovalTasks)]
          /\ op' = [op EXCEPT !.pc = "awaitRemove"]
          /\ UNCHANGED fs
     ELSE IF fs[op.src].kind # "directory"
     THEN /\ op' = [op EXCEPT !.pc = "done", !.outcome = removeOfAbsent]
          /\ UNCHANGED <<fs, pools>>
     ELSE IF Fails(<<>>, 1)
     THEN /\ op' = [op EXCEPT !.pc = "done", !.outcome = "rejected"]
          /\ UNCHANGED <<fs, pools>>
     ELSE /\ op' = [op EXCEPT !.pc = "done", !.outcome = "fulfilled"]
          /\ fs' = Removed(fs, op.src)
          /\ UNCHANGED pools
  /\ UNCHANGED <<limit, fails>>
  /\ UNCHANGED <<bridgeVars, pathVars>>

\* part_000:269-270: `await createPromisePool(tasks, 10)` settles.
removeSettles ==
  /\ op.pc = "awaitRemove"
  /\ PoolPromise(pools[<<>>]) # "pending"
  /\ op' = [op EXCEPT !.pc = "done",
                      !.outcome = PoolPromise(pools[<<>>])]
  /\ UNCHANGED <<fs, pools, limit, fails>>
  /\ UNCHANGED <<bridgeVars, pathVars>>

\* ------------------------------------------------------------------ file copy
\* OPFile.exists(): a boolean probe of the file at the path.
fileExists(tree, p) == tree[p].kind = "file"

\* getFileSystemHandle(path, {create, isFile: false}) (utils.ts:35-72) on the
\* segments p: the walk stops at the first segment that is not a directory; a
\* file there is a TypeMismatchError, which is rethrown; a missing entry is
\* created with create: true and is a NotFoundError, turned into null, without.
getFileSystemHandle(tree, p, create) ==
  LET bad == {k \in 1..Len(p) : tree[SubSeq(p, 1, k)].kind # "directory"} IN
  IF bad = {} THEN "handle"
  ELSE IF tree[SubSeq(p, 1, CHOOSE k \in bad : \A j \in bad : k <= j)].kind = "file"
  THEN "TypeMismatchError"
  ELSE IF create THEN "handle" ELSE "null"

\* The tree once getFileSystemHandle(p, {create: true}) has returned a handle.
withDirectories(tree, p) ==
  [q \in FsPaths |-> IF IsPrefix(q, p) THEN DirEntry ELSE tree[q]]

\* The path of the tree that segments name (a name of the tree is one character).
entryPath(segments) == [k \in 1..Len(segments) |-> segments[k][1]]

\* `"/" + parents.join("/")` (file.ts:541, :557)
parentsString(parents) == IF parents = <<>> THEN <<"/">> ELSE joined(parents)

\* The segments getFileSystemHandle walks for a path string (utils.ts:47).
walked(str) ==
  LET pp == parsePath(str) IN
  entryPath(IF pp.name = <<>> THEN pp.parents ELSE Append(pp.parents, pp.name))

\* file.ts:551-554: `existingDir`, the string destination resolved as a
\* directory with create: false.
existingDir(tree, fullPath) == getFileSystemHandle(tree, walked(fullPath), FALSE)

Rejected(name, tree) == [err |-> name, tree |-> tree, dir |-> <<>>, name |-> ""]
Resolved(tree, dir, name) == [err |-> "", tree |-> tree, dir |-> dir, name |-> name]

\* The directory created (or found) for a target, or the provider's refusal.
InDirectory(tree, dir, name) ==
  IF getFileSystemHandle(tree, dir, TRUE) = "handle"
  THEN Resolved(withDirectories(tree, dir), dir, name)
  ELSE Rejected(getFileSystemHandle(tree, dir, TRUE), tree)

\* file.ts:513-563: targetDir and targetName for each shape of destination.
targetOf(tree, shape, dest, own) ==
  CASE shape = "directoryHandle" -> Resolved(tree, dest, own)
    [] shape = "fileHandle" -> Rejected("AlreadyExistsError", tree)
    [] shape = "handle" -> Rejected("NotSupportedError", tree)
    [] shape = "OPDir" -> InDirectory(tree, dest, own)
    [] shape = "OPFile" ->
         IF fileExists(tree, dest) THEN Rejected("AlreadyExistsError", tree)
         ELSE InDirectory(tree, SubSeq(dest, 1, Len(dest) - 1), dest[Len(dest)])
    [] shape = "string" ->
         LET pp == parsePath(dest)
             h == existingDir(tree, pp.fullPath)
         IN IF h = "handle" THEN Resolved(tree, walked(pp.fullPath), own)
            ELSE IF h = "null"
            THEN InDirectory(tree, walked(parentsString(pp.parents)),
                             IF pp.name # <<>> THEN pp.name[1] ELSE own)
            ELSE Rejected(h, tree)

\* The destinations a file copy is given.
DirDests == {<<"t">>, <<"t", "d">>, <<"s">>}
FileDests == {<<"t", "f">>, <<"t", "g">>, <<"t", "d", "g">>}
StringDests ==
  { <<"t">>,                                \* "t"
    <<"t", "/", "g">>,                       \* "t/g"
    <<"/", "t", "/", "d", "/">>,             \* "/t/d/"
    <<"s", "/", ".", ".", "/", "t">>,        \* "s/../t"
    <<" ", "t", "/", ".", "/", "f">> }       \* " t/./f"

\* OPFile.copyTo(dest) of file.ts:509-569 is invoked on the file src.
CallFileCopyTo(src, shape, dest) ==
  /\ op.kind = "none"
  /\ shape \in {"directoryHandle", "handle"} => dest \in DirDests /\ fs[dest].kind = "directory"
  /\ shape = "fileHandle" => dest \in FileDests /\ fs[dest].kind = "file"
  /\ shape = "OPDir" => dest \in DirDests
  /\ shape = "OPFile" => dest \in FileDests
  /\ shape = "string" => dest \in StringDests
  /\ op' = [NoOp EXCEPT !.kind = "fileCopyTo", !.pc = "resolve", !.src = src,
                        !.dest = dest, !.shape = shape, !.before = fs]
  /\ UNCHANGED <<fs, pools, limit, fails>>
  /\ UNCHANGED <<bridgeVars, pathVars>>

\* file.ts:510-567: the source must exist; the target directory and name are
\* resolved; getFileHandle(targetName, {create: true}) makes an empty file
\* unless there is one, and is refused where a directory has the name.
fileCopyToResolve ==
  LET own == op.src[Len(op.src)]
      t == targetOf(fs, op.shape, op.dest, own)
  IN
  /\ op.kind = "fileCopyTo"
  /\ op.pc = "resolve"
  /\ IF ~fileExists(fs, op.src)
     THEN /\ op' = [op EXCEPT !.pc = "done", !.outcome = "NotFoundError"]
          /\ UNCHANGED fs
     ELSE IF t.err # ""
     THEN /\ op' = [op EXCEPT !.pc = "done", !.outcome = t.err]
          /\ fs' = t.tree
     ELSE IF t.tree[Append(t.dir, t.name)].kind = "directory"
     THEN /\ op' = [op EXCEPT !.pc = "done", !.outcome = "TypeMismatchError"]
          /\ fs' = t.tree
     ELSE /\ op' = [op EXCEPT !.pc = "pipe", !.target = Append(t.dir, t.name)]
          /\ fs' = [t.tree EXCEPT ![Append(t.dir, t.name)] =
                      IF @.kind = "file" THEN @ ELSE FileEntry(0)]
  /\ UNCHANGED <<pools, limit, fails>>
  /\ UNCHANGED <<bridgeVars, pathVars>>

\* (variant: the target is created and nothing is piped into it)
fileCopyToCreatesOnly ==
  /\ op.kind = "fileCopyTo"
  /\ op.pc = "pipe"
  /\ op' = [op EXCEPT !.pc = "done", !.outcome = "fulfilled"]
  /\ UNCHANGED <<fs, pools, limit, fails>>
  /\ UNCHANGED <<bridgeVars, pathVars>>

\* file.ts:568: the content of the source is piped into the target and
\* replaces what the target held.
fileCopyToPipe ==
  /\ op.kind = "fileCopyTo"
  /\ op.pc = "pipe"
  /\ fs' = [fs EXCEPT ![op.target] = FileEntry(fs[op.src].data)]
  /\ op' = [op EXCEPT !.pc = "done", !.outcome = "fulfilled"]
  /\ UNCHANGED <<pools, limit, fails>>
  /\ UNCHANGED <<bridgeVars, pathVars>>

\* ------------------------------------------------------------ specification
\* The lifecycle of the bridge: the caller opens files of any path and mode and
\* calls the methods of its sessions that carry no arguments.
Next ==
  \/ \E p \in Paths, mode \in Modes : CallOpen(p, mode)
  \/ \E s \in Sessions, action \in {"getSize", "flush", "close"} : CallPlain(s, action)
  \/ Deliver
  \/ Fault
  \/ WorkerOpenBegin
  \/ \E r \in opening : WorkerOpenFinish(r)
  \/ WorkerHandle

Spec == Init /\ [][Next]_vars

\* Progress: the caller opens one path read-write, any number of times, and
\* queries and closes its sessions. The scheduling of the host is fair: a posted
\* message is eventually handled (worker event loop), a suspended open
\* eventually resumes, a posted response is eventually delivered to
\* worker.onmessage.
LiveNext ==
  \/ CallOpen("a", "readwrite")
  \/ \E s \in Sessions, action \in {"getSize", "close"} : CallPlain(s, action)
  \/ Deliver
  \/ Fault
  \/ WorkerOpenBegin
  \/ \E r \in opening : WorkerOpenFinish(r)
  \/ WorkerHandle

LiveSpec ==
  /\ Init
  /\ [][LiveNext]_vars
  /\ WF_vars(Deliver)
  /\ WF_vars(WorkerOpenBegin)
  /\ WF_vars(\E r \in opening : WorkerOpenFinish(r))
  /\ WF_vars(WorkerHandle)

\* Reading and writing: the caller opens one file read-write and calls every
\* method of the session with every argument; the worker context raises no
\* error event.
OpenOne == opens = 0 /\ CallOpen("a", "readwrite")

NextIO ==
  \/ OpenOne
  \/ \E s \in Sessions, size \in Sizes, atArg \in Offsets : CallRead(s, size, atArg)
  \/ \E s \in Sessions, data \in Data, atArg \in Offsets : CallWrite(s, data, atArg)
  \/ \E s \in Sessions, newSize \in Sizes : CallTruncate(s, newSize)
  \/ \E s \in Sessions, action \in {"getSize", "flush", "close"} : CallPlain(s, action)
  \/ Deliver
  \/ WorkerOpenBegin
  \/ \E r \in opening : WorkerOpenFinish(r)
  \/ WorkerHandle

IOSpec == Init /\ [][NextIO]_vars

\* The pool by itself: any number of units, any concurrency limit, any units
\* failing, settling in any order.
PoolInit ==
  /\ BridgeIdle
  /\ PathIdle
  /\ fs = [p \in FsPaths |-> NoEntry]
  /\ pools = [id \in PoolIds |-> NoPool]
  /\ op = NoOp
  /\ limit \in Concurrency
  /\ fails \in SUBSET {[pool |-> <<"u">>, i |-> i] : i \in 1..MaxUnits}

PoolNext ==
  \/ \E k \in 1..MaxUnits : RunPool(k)
  \/ \E i \in 1..MaxUnits : UnitSettles(<<"u">>, i)
  \/ \E j \in 1..MaxUnits : poolTask(<<"u">>, j)

PoolSpec == PoolInit /\ [][PoolNext]_vars

\* The trees a tree operation starts from: the source s is absent, empty, flat,
\* nested, nested with a name used at both levels, or wide; the destination t
\* is absent or an existing directory that holds a file.
Tree(files0, dirs0) ==
  [p \in FsPaths |->
     IF p \in dirs0 THEN DirEntry
     ELSE IF \E e \in files0 : e[1] = p
     THEN FileEntry((CHOOSE e \in files0 : e[1] = p)[2])
     ELSE NoEntry]

SourceTrees ==
  { Tree({}, {}),
    Tree({}, {<<"s">>}),
    Tree({<< <<"s", "f">>, 1 >>, << <<"s", "g">>, 2 >>}, {<<"s">>}),
    Tree({<< <<"s", "f">>, 1 >>, << <<"s", "d", "g">>, 2 >>}, {<<"s">>, <<"s", "d">>}),
    Tree({<< <<"s", "f">>, 1 >>, << <<"s", "d", "f">>, 2 >>}, {<<"s">>, <<"s", "d">>}),
    Tree({<< <<"s", "f">>, 1 >>, << <<"s", "g">>, 2 >>, << <<"s", "d", "g">>, 1 >>},
         {<<"s">>, <<"s", "d">>}) }

WithDest(tree) ==
  [p \in FsPaths |-> IF p = <<"t">> THEN DirEntry
                     ELSE IF p = <<"t", "g">> THEN FileEntry(1) ELSE tree[p]]

InitialTrees == SourceTrees \cup {WithDest(tree) : tree \in SourceTrees}

\* The units that can be made to fail: the children of s and of s/d.
FailPoints ==
  {[pool |-> id, i |-> i] : id \in {<<"s">>, <<"s", "d">>}, i \in 1..3}

TreeInit ==
  /\ BridgeIdle
  /\ PathIdle
  /\ fs \in InitialTrees
  /\ pools = [id \in PoolIds |-> NoPool]
  /\ op = NoOp
  /\ limit \in Concurrency
  /\ fails \in SUBSET {fp \in FailPoints : fp.i <= Len(children(fp.pool))}

\* Directory copy (part_000:113-165) over the pool.
CopyNext ==
  \/ \E shape \in {"OPDir", "string", "handle"} : CallCopyTo(shape)
  \/ copyToChecks
  \/ copyToTasks
  \/ copyToSettles
  \/ \E id \in PoolIds, i \in 1..3 : FileTaskMake(id, i)
  \/ \E id \in PoolIds, i \in 1..3 : FileTaskPipe(id, i)
  \/ \E id \in PoolIds, i \in 1..3 : DirTaskMake(id, i)
  \/ \E id \in PoolIds, i \in 1..3 : DirTaskJoin(id, i)
  \/ \E id \in PoolIds, j \in 1..3 : poolTask(id, j)

CopySpec == TreeInit /\ [][CopyNext]_vars

\* Directory move and removal (part_000:256-307) over the pool.
MoveInit ==
  /\ BridgeIdle
  /\ PathIdle
  /\ fs \in InitialTrees
  /\ pools = [id \in PoolIds |-> NoPool]
  /\ op = NoOp
  /\ limit \in Concurrency
  /\ fails \in SUBSET {fp \in FailPoints \cup {[pool |-> <<>>, i |-> 1]} :
                         fp.i <= Len(children(fp.pool))}

MoveNext ==
  \/ \E shape \in {"OPDir", "handle"} : CallMoveTo(shape)
  \/ \E d \in {<<>>, <<"s">>, <<"s", "d">>} : CallRemove(d)
  \/ moveToCopy
  \/ moveToCopySettles
  \/ remove
  \/ removeSettles
  \/ \E id \in PoolIds, i \in 1..3 : FileTaskMake(id, i)
  \/ \E id \in PoolIds, i \in 1..3 : FileTaskPipe(id, i)
  \/ \E id \in PoolIds, i \in 1..3 : DirTaskMake(id, i)
  \/ \E id \in PoolIds, i \in 1..3 : DirTaskJoin(id, i)
  \/ \E id \in PoolIds, i \in 1..3 : RmTask(id, i)
  \/ \E id \in PoolIds, j \in 1..3 : poolTask(id, j)

MoveSpec == MoveInit /\ [][MoveNext]_vars

\* File copy: a directory s with or without the files f and g, and a
\* destination t that is absent, empty, holds a file named as the source, or
\* holds a sub-directory.
FileCopyTrees ==
  { Tree(files0, {<<"s">>} \cup dirs0) :
      files0 \in { {}, {<< <<"s", "f">>, 1 >>, << <<"s", "g">>, 2 >>} },
      dirs0 \in { {}, {<<"t">>}, {<<"t">>, <<"t", "d">>} } }
    \cup
  { Tree({<< <<"s", "f">>, 1 >>, << <<"s", "g">>, 2 >>, << <<"t", "f">>, 2 >>} \cup more,
         {<<"s">>, <<"t">>} \cup dirs0) :
      more \in { {}, {<< <<"t", "g">>, 1 >>} },
      dirs0 \in { {}, {<<"t", "d">>} } }

FileCopyInit ==
  /\ BridgeIdle
  /\ PathIdle
  /\ fs \in FileCopyTrees
  /\ pools = [id \in PoolIds |-> NoPool]
  /\ op = NoOp
  /\ limit = DefaultConcurrency
  /\ fails = {}

FileCopyNext ==
  \/ \E src \in {<<"s", "f">>, <<"s", "g">>},
        shape \in {"directoryHandle", "fileHandle", "handle", "OPDir", "OPFile", "string"},
        dest \in DirDests \cup FileDests \cup StringDests :
          CallFileCopyTo(src, shape, dest)
  \/ fileCopyToResolve
  \/ fileCopyToPipe

FileCopySpec == FileCopyInit /\ [][FileCopyNext]_vars

\* Path normalisation by itself: any path string of up to MaxLen characters.
\* Reuse: the caller opens a file, uses and closes the session, and opens a
\* file again once the worker context has been torn down (the use of
\* filesystem.e2e.test.ts:94-100); no session is used after its close was
\* called.
CloseCalled(s) ==
  \/ sess[s].closed
  \/ \E d \in deferredMap : d.sess = s /\ d.action = "close"

FirstOpen == opens = 0 /\ \E p \in Paths, mode \in Modes : CallOpen(p, mode)

OpenAgain == opens > 0 /\ ~worker /\ \E p \in Paths, mode \in Modes : CallOpen(p, mode)

Use == \E s \in Sessions, action \in {"getSize", "flush", "close"} :
         ~CloseCalled(s) /\ CallPlain(s, action)

ReuseNext ==
  \/ FirstOpen
  \/ OpenAgain
  \/ Use
  \/ Deliver
  \/ WorkerOpenBegin
  \/ \E r \in opening : WorkerOpenFinish(r)
  \/ WorkerHandle

ReuseSpec == Init /\ [][ReuseNext]_vars

\* Sending without a worker: besides opening the file, the caller builds a
\* session object of its own and calls its methods.
DirectNext ==
  \/ NewFile("a", "readwrite")
  \/ CallOpen("a", "readwrite")
  \/ \E s \in Sessions, action \in {"getSize", "close"} : CallPlain(s, action)
  \/ Deliver
  \/ WorkerOpenBegin
  \/ \E r \in opening : WorkerOpenFinish(r)
  \/ WorkerHandle

DirectSpec == Init /\ [][DirectNext]_vars

\* Rejections: the caller opens one file read-write, reads, writes at the
\* cursor or at the quota, truncates and closes, and the worker context may
\* raise an error event.
RejectNext ==
  \/ OpenOne
  \/ \E s \in Sessions : CallRead(s, 2, NoAt)
  \/ \E s \in Sessions, atArg \in {NoAt, Quota} : CallWrite(s, <<1>>, atArg)
  \/ \E s \in Sessions : CallTruncate(s, 0)
  \/ \E s \in Sessions : CallPlain(s, "close")
  \/ Deliver
  \/ Fault
  \/ WorkerOpenBegin
  \/ \E r \in opening : WorkerOpenFinish(r)
  \/ WorkerHandle

RejectSpec == Init /\ [][RejectNext]_vars

PathInit ==
  /\ BridgeIdle
  /\ TreeIdle
  /\ \E path \in Strings : parsed = [NoParsed EXCEPT !.pc = "given", !.path = path]

PathNext ==
  \/ parsePathOfInput
  \/ parsePathOfFullPath

PathSpec == PathInit /\ [][PathNext]_vars

\* ------------------------------------------------------------------ claims
\* The step is a run of worker.onmessage: the only step that shortens the outbox.
Delivering == Len(outbox') < Len(outbox)

\* The step is the worker answering the request at the head of its inbox: the
\* only step that takes from the inbox and adds to the outbox.
Answering == /\ inbox # <<>>
             /\ inbox' = Tail(inbox)
             /\ Len(outbox') = Len(outbox) + 1

\* Some event of the latest caller-side step settles request id with `how`.
SettledAs(evs, id, how) == \E k \in 1..Len(evs) : evs[k].id = id /\ evs[k].how = how

\* C1: when the response to a close brings the open count to zero, the worker is
\* terminated, every request still pending is rejected with AbortError and the
\* pending-request table is empty afterwards.
C1_TeardownRejectsPending ==
  [][ (/\ Delivering
       /\ Head(outbox).action = "close"
       /\ Head(outbox).id \in PendingIds
       /\ openCount - 1 <= 0)
      => (/\ worker' = FALSE
          /\ openCount' = 0
          /\ deferredMap' = {}
          /\ \A d \in deferredMap :
               d.id # Head(outbox).id => SettledAs(settled', d.id, "AbortError")) ]_vars

\* A close was answered while another request was pending, and the worker is gone.
C1_Witness ==
  /\ worker = FALSE
  /\ Len(settled) = 2
  /\ settled[1].action = "close"
  /\ settled[2].how = "AbortError"

\* C2: the open count changes only on successful open responses (+1) and
\* successful close responses (-1); an open or a close answered with an error
\* leaves it unchanged.
C2_CountsOnlySuccesses ==
  [][ openCount' # openCount
      => (/\ Delivering
          /\ Head(outbox).err = ""
          /\ \/ Head(outbox).action = "open" /\ openCount' = openCount + 1
             \/ Head(outbox).action = "close" /\ openCount' = openCount - 1) ]_vars

\* C3: every dispatched request is settled at most once, and its entry is in
\* the pending-request table exactly as long as it has not been settled.
C3_SettledAtMostOnce ==
  \A i \in Ids :
    /\ settles[i] <= 1
    /\ i \in PendingIds => settles[i] = 0
    /\ (i < nextId /\ i \notin PendingIds) => settles[i] = 1

\* After a fault has rejected a request, a later close tears the worker down and
\* rejects another request that was pending with it.
C3_Witness ==
  /\ faults > 0
  /\ \E i \in Ids : settles[i] = 1 /\ ~SettledAs(settled, i, "AbortError")
                    /\ ~SettledAs(settled, i, "ok")
  /\ Len(settled) = 2
  /\ settled[2].how = "AbortError"

\* C4: under the host's scheduling every request the bridge has dispatched
\* eventually resolves or rejects: from some point on no request is pending and
\* every request dispatched has been settled.
C4_EveryRequestSettles ==
  <>[](deferredMap = {} /\ \A i \in Ids : i < nextId => settles[i] = 1)

\* A dispatched request has been resolved by its response while another is pending.
C4_Witness ==
  /\ Len(settled) = 1
  /\ settled[1].how = "ok"
  /\ settles[settled[1].id] = 1
  /\ PendingIds # {}

\* C5: a call issued on a session after the session's close has completed never
\* resolves: it is rejected (with the invalid-state condition, or with the
\* rejection of a teardown or fault that finds it pending), whatever else has
\* happened since.
C5_NoSuccessAfterClose ==
  \A k \in 1..Len(settled) : settled[k].closedAtCall => settled[k].how # "ok"

\* C6: a context-level fault rejects every request pending at that moment and
\* leaves the pending-request table empty.
C6_FaultRejectsAll ==
  [][ faults' # faults
      => (/\ deferredMap' = {}
          /\ Len(settled') = Cardinality(deferredMap)
          /\ \A d \in deferredMap :
               \E k \in 1..Len(settled') : settled'[k].id = d.id /\ settled'[k].how # "ok"
          /\ \A d \in deferredMap : settles'[d.id] = 1) ]_vars

\* A fault has hit two pending requests.
C6_Witness ==
  /\ faults = 1
  /\ deferredMap = {}
  /\ Len(settled) = 2
  /\ settled[1].how = FaultReason
  /\ settled[2].how = FaultReason

\* C7: the requests outstanding when the worker context crashes are rejected
\* with an AbortError.
C7_FaultRejectsWithAbortError ==
  [][ faults' # faults
      => \A k \in 1..Len(settled') : settled'[k].how = "AbortError" ]_vars

\* The response the worker posts in an Answering step.
Answer == outbox'[Len(outbox')]

\* The table entry of the request a Delivering step answers.
Awaited == CHOOSE d \in deferredMap : d.id = Head(outbox).id

\* C8: a read or write uses the explicit offset if one is given and the
\* session's tracked cursor otherwise; the worker transfers the bytes at that
\* offset; after a successful call the cursor equals the offset used plus the
\* bytes transferred (the offset used, when nothing was transferred).
C8_CursorIsOffsetPlusBytes ==
  [][ /\ \A d \in deferredMap' \ deferredMap :
           /\ d.action = "read" =>
                d.at = IF d.atArg # NoAt THEN d.atArg ELSE sess[d.sess].prevReadOffset
           /\ d.action = "write" =>
                d.at = IF d.atArg # NoAt THEN d.atArg ELSE sess[d.sess].prevWriteOffset
      /\ (Answering /\ Answer.err = "")
           => LET r == Head(inbox) IN
              /\ r.action = "read" =>
                   /\ Len(Answer.bytes) <= r.size
                   /\ \A i \in 1..Len(Answer.bytes) :
                        Answer.bytes[i] = files[r.path].data[r.at + i]
              /\ r.action = "write" =>
                   /\ Answer.num = Len(r.data)
                   /\ \A i \in 1..Len(r.data) : files'[r.path].data[r.at + i] = r.data[i]
      /\ (Delivering /\ Head(outbox).id \in PendingIds /\ Head(outbox).err = "")
           => LET m == Head(outbox)  r == Awaited IN
              /\ m.action = "read" =>
                   sess'[r.sess].prevReadOffset = r.at + Len(m.bytes)
              /\ m.action = "write" =>
                   sess'[r.sess].prevWriteOffset = r.at + m.num ]_vars

\* A read with explicit offset 1 (the tracked read cursor being elsewhere) has
\* transferred two bytes and left the read cursor at 3.
C8_Witness ==
  /\ Len(settled) = 1
  /\ settled[1].action = "read"
  /\ settled[1].how = "ok"
  /\ settled[1].atArg = 1
  /\ settled[1].n = 2
  /\ sess[1].prevReadOffset = 3
  /\ sess[1].prevWriteOffset = 3

\* C9: after a successful truncate(n) the file holds n bytes (its old content
\* cut to n or padded with zeros) and getSize reports the size of the file; the
\* write cursor becomes min(previous write cursor, n) and the read cursor is
\* not changed.
C9_TruncateClampsWriteCursor ==
  [][ /\ (Answering /\ Answer.err = "" /\ Head(inbox).action = "truncate")
           => LET r == Head(inbox)
                  old == files[r.path].data
                  new == files'[r.path].data
              IN /\ Len(new) = r.size
                 /\ \A i \in 1..r.size : new[i] = IF i <= Len(old) THEN old[i] ELSE 0
      /\ (Answering /\ Answer.err = "" /\ Head(inbox).action = "getSize")
           => Answer.num = Len(files[Head(inbox).path].data)
      /\ (/\ Delivering
          /\ Head(outbox).id \in PendingIds
          /\ Head(outbox).err = ""
          /\ Head(outbox).action = "truncate")
           => LET r == Awaited IN
              /\ sess'[r.sess].prevWriteOffset = Min(sess[r.sess].prevWriteOffset, r.size)
              /\ sess'[r.sess].prevReadOffset = sess[r.sess].prevReadOffset ]_vars

\* A truncate to 0 has completed on a session whose cursors were both beyond 0:
\* the write cursor is clamped, the read cursor is where it was.
C9_Witness ==
  /\ Len(settled) = 1
  /\ settled[1].action = "truncate"
  /\ settled[1].how = "ok"
  /\ settled[1].size = 0
  /\ settled[1].wr0 = 2
  /\ sess[1].prevWriteOffset = 0
  /\ sess[1].prevReadOffset = 2

\* OPFile.arrayBuffer(): the whole content of the file, read from the provider
\* (an absent file reads as empty).
arrayBuffer(p) == IF files[p].exists THEN files[p].data ELSE <<>>

\* The latest change of the content of p was a write of b at offset 0, since flushed.
RoundTrip(p, b) == lastW[p].set /\ lastW[p].flushed /\ lastW[p].data = b

CursorsKept ==
  \A s \in Sessions :
    /\ sess'[s].prevReadOffset >= sess[s].prevReadOffset
    /\ sess'[s].prevWriteOffset >= sess[s].prevWriteOffset

\* C11 as stated: over the lifetime of a session neither cursor ever takes a
\* value smaller than a value it had before.
C11_CursorsMonotonic == [][CursorsKept]_vars

\* C11 as amended: a read or write that passes no explicit offset starts at the
\* cursor and never leaves the cursor below the value it had when the call was
\* issued; a cursor decreases only through a read or write that started below
\* it (an explicit offset, or a call issued before the cursor last moved) and,
\* for the write cursor, through a truncate to a size below it; cursors are
\* never negative.
C11_CursorsDecreaseOnlyByOffsetOrTruncate ==
  /\ [](\A s \in Sessions : sess[s].prevReadOffset >= 0 /\ sess[s].prevWriteOffset >= 0)
  /\ [][ /\ \A d \in deferredMap' \ deferredMap :
              /\ (d.action = "read" /\ d.atArg = NoAt) => d.at = sess[d.sess].prevReadOffset
              /\ (d.action = "write" /\ d.atArg = NoAt) => d.at = sess[d.sess].prevWriteOffset
         /\ (Delivering /\ Head(outbox).id \in PendingIds /\ Head(outbox).err = "")
              => LET m == Head(outbox)  r == Awaited IN
                 /\ (m.action = "read" /\ r.atArg = NoAt)
                      => sess'[r.sess].prevReadOffset >= r.at
                 /\ (m.action = "write" /\ r.atArg = NoAt)
                      => sess'[r.sess].prevWriteOffset >= r.at
         /\ \A s \in Sessions :
              /\ sess'[s].prevReadOffset < sess[s].prevReadOffset
                   => /\ Delivering
                      /\ Head(outbox).id \in PendingIds
                      /\ Awaited.sess = s
                      /\ Awaited.action = "read"
                      /\ Awaited.at < sess[s].prevReadOffset
              /\ sess'[s].prevWriteOffset < sess[s].prevWriteOffset
                   => /\ Delivering
                      /\ Head(outbox).id \in PendingIds
                      /\ Awaited.sess = s
                      /\ \/ Awaited.action = "write" /\ Awaited.at < sess[s].prevWriteOffset
                         \/ /\ Awaited.action = "truncate"
                            /\ Awaited.size < sess[s].prevWriteOffset
                            /\ sess'[s].prevWriteOffset = Awaited.size ]_vars

\* A read without an explicit offset, issued with the read cursor at 2, has
\* completed without transferring a byte and the cursor is still at 2.
C11_Witness ==
  /\ Len(settled) = 1
  /\ settled[1].action = "read"
  /\ settled[1].how = "ok"
  /\ settled[1].atArg = NoAt
  /\ settled[1].at = 2
  /\ settled[1].n = 0
  /\ sess[1].prevReadOffset = 2

\* The pool of plain units.
UnitPool == pools[<<"u">>]

\* C12: at every moment the number of units started and not yet finished is at
\* most min(N, number of units), for every limit N and every completion order.
C12_RunningAtMostLimit ==
  \A id \in PoolIds :
    pools[id].on =>
      Cardinality(Running(pools[id])) <= Min(limit, Len(pools[id].tasks))

\* A pool with limit 2 has four units: two have finished, two are running.
C12_Witness ==
  /\ UnitPool.on
  /\ limit = 2
  /\ Len(UnitPool.tasks) = 4
  /\ Cardinality(Running(UnitPool)) = 2
  /\ UnitPool.next = 4

\* C13: by the time all pool workers have finished, every unit has been started
\* exactly once, whichever units fail.
C13_EveryUnitStartedOnce ==
  (UnitPool.on /\ WorkersFinished(UnitPool))
    => \A i \in 1..Len(UnitPool.tasks) : UnitPool.starts[i] = 1

\* C14: when a unit fails, only the worker that ran it stops: no other worker
\* and no unit claimed by another worker is touched, and a worker whose unit
\* has resolved claims the next unclaimed unit whatever has failed before.
C14_FailureStopsOnlyItsWorker ==
  [][ \A j \in 1..Len(UnitPool.w) :
        (UnitPool.on /\ UnitPool'.w[j] # UnitPool.w[j])
          => LET i == UnitPool.w[j].i IN
             /\ \A h \in 1..Len(UnitPool.w) : h # j => UnitPool'.w[h] = UnitPool.w[h]
             /\ \A u \in 1..Len(UnitPool.tasks) :
                  UnitPool.st[u] # "new" => UnitPool'.st[u] = UnitPool.st[u]
             /\ UnitPool.st[i] = "failed" => UnitPool'.w[j].st = "failed"
             /\ (UnitPool.st[i] = "ok" /\ UnitPool.next < Len(UnitPool.tasks))
                  => /\ UnitPool'.w[j] = [i |-> UnitPool.next + 1, st |-> "busy"]
                     /\ UnitPool'.st[UnitPool.next + 1] = "started"
             /\ (UnitPool.st[i] = "ok" /\ UnitPool.next = Len(UnitPool.tasks))
                  => UnitPool'.w[j].st = "done" ]_vars

\* A worker failed when two units had been claimed, and the other worker has
\* since claimed and finished the remaining units.
C14_Witness ==
  /\ UnitPool.on
  /\ UnitPool.nextAtFailure = 2
  /\ Len(UnitPool.tasks) = 4
  /\ UnitPool.next = 4
  /\ UnitPool.st = <<"failed", "ok", "ok", "ok">>
  /\ WorkersFinished(UnitPool)

\* The paths below the source directory, relative to it.
Rels == {SubSeq(q, 2, Len(q)) : q \in {x \in FsPaths : x[1] = "s" /\ Len(x) > 1}}

\* The directory copy has returned to its caller by resolving.
CopyResolved == op.kind = "copyTo" /\ op.pc = "done" /\ op.outcome = "fulfilled"

\* Some unit of some pool has failed.
SomeUnitFailed ==
  \E id \in PoolIds : \E i \in 1..Len(pools[id].tasks) : pools[id].st[i] = "failed"

C16_SiblingsCopiedDespiteFailures ==
  CopyResolved
    => /\ \A id \in PoolIds : \A i \in 1..Len(pools[id].tasks) :
            pools[id].st[i] \in {"ok", "failed"}
       /\ \A i \in 1..Len(pools[op.src].tasks) :
            ~Fails(op.src, i)
              => fs[op.dest \o <<pools[op.src].tasks[i].name>>].kind
                   = pools[op.src].tasks[i].kind

\* C17: when some children fail during a directory copy, the outcome returned
\* to the caller names the children that failed.
C17_OutcomeExposesFailures ==
  (op.kind = "copyTo" /\ op.pc = "done" /\ pools[op.src].on)
    => op.failures = {i \in 1..Len(pools[op.src].tasks) : pools[op.src].st[i] = "failed"}

SourceFiles == {q \in FsPaths : IsPrefix(op.src, q) /\ op.before[q].kind = "file"}

\* Some file below the destination has the name and the content that the
\* source file at path q had.
HeldAtDest(q) ==
  \E t \in FsPaths :
    /\ IsPrefix(op.dest, t)
    /\ t[Len(t)] = q[Len(q)]
    /\ fs[t] = op.before[q]

\* C19: after moveTo of a directory has completed, the source path reports
\* non-existent, the destination reports existent and holds every file of the
\* source, nested files included, with identical content.
C19_MoveKeepsEveryFile ==
  (op.kind = "moveTo" /\ op.pc = "done" /\ op.outcome = "fulfilled")
    => /\ fs[op.src].kind = "none"
       /\ fs[op.dest].kind = "directory"
       /\ \A q \in SourceFiles : HeldAtDest(q)

\* C20: during moveTo the removal of the source starts only after the copy has
\* settled with every child copied, a failed child copy leaves the source in
\* place, and at no point is a file of the source absent from both the source
\* and the destination.
C20_MoveNeverLosesAFile ==
  op.kind = "moveTo"
    => /\ op.pc = "remove"
            => \A id \in PoolIds : \A i \in 1..Len(pools[id].tasks) : pools[id].st[i] = "ok"
       /\ SomeUnitFailed => \A q \in FsPaths : IsPrefix(op.src, q) => fs[q] = op.before[q]
       /\ \A q \in SourceFiles : fs[q] = op.before[q] \/ HeldAtDest(q)

\* C21: removing the root attempts and finishes the removal of every top-level
\* entry before remove() settles, whichever removals fail, and every entry whose
\* removal does not fail is gone.
C21_RootRemovalSettlesAll ==
  (op.kind = "remove" /\ op.src = <<>> /\ op.pc = "done")
    => \A i \in 1..Len(pools[<<>>].tasks) :
         /\ pools[<<>>].st[i] \in {"ok", "failed"}
         /\ ~Fails(<<>>, i) => fs[<<pools[<<>>].tasks[i].name>>].kind = "none"

\* The caller's remove() of a directory below the top level has settled, and
\* the parent of that directory did not exist when it was called.
RemovedUnderAbsentParent ==
  /\ op.kind = "remove"
  /\ op.pc = "done"
  /\ Len(op.src) = 2
  /\ op.before[SubSeq(op.src, 1, 1)].kind = "none"

C25_NormalisationIdempotent ==
  parsed.pc = "reparsed" => parsed.second = parsed.first

\* A copy of an existing file has settled.
FileCopied == op.kind = "fileCopyTo" /\ op.pc = "done" /\ op.before[op.src].kind = "file"

\* The source's own name, and the path a string destination names.
OwnName == op.src[Len(op.src)]
Named == walked(op.dest)

NamedTarget ==
  CASE op.shape \in {"directoryHandle", "OPDir"} -> Append(op.dest, OwnName)
    [] op.shape \in {"fileHandle", "OPFile"} -> op.dest
    [] op.shape = "string" ->
         IF op.before[Named].kind = "directory" THEN Append(Named, OwnName) ELSE Named
    [] OTHER -> op.src

\* C24: file copyTo never overwrites an existing file: for every destination
\* shape, if a file with the target name exists in the target directory the
\* copy rejects with AlreadyExistsError and the existing file is unchanged.
C24_NeverOverwrites ==
  (FileCopied /\ op.shape # "handle" /\ op.before[NamedTarget].kind = "file") =>
    /\ op.outcome = "AlreadyExistsError"
    /\ fs[NamedTarget] = op.before[NamedTarget]

\* The latest caller-side step was worker.onerror rejecting what was pending:
\* the worker context the caller holds is the one that raised the error event.
JustFaulted == settled # <<>> /\ settled[1].how = FaultReason

\* C26: after a context-level fault the bridge treats the worker context as
\* dead: no further request is dispatched to the context that raised the fault.
C26_NoDispatchToFaultedContext ==
  [][JustFaulted => Len(inbox') <= Len(inbox)]_vars

\* C27: in the worker, an action other than open on a path that has no
\* registry entry is answered with the invalid-access-handle error response,
\* performs no operation on any handle and leaves the registry unchanged.
C27_NoEntryIsAnError ==
  [][(Answering /\ Head(inbox).action # "open" /\ accessHandleMap[Head(inbox).path] = 0)
       => /\ Answer.id = Head(inbox).id
          /\ Answer.err = "InvalidAccessHandle"
          /\ UNCHANGED <<accessHandleMap, handles, files, lastW>>]_vars

\* The worker has answered a request for a path that had no registry entry.
C27_Witness ==
  \E k \in 1..Len(outbox) : outbox[k].err = "InvalidAccessHandle"

\* The step is the worker posting a response.
Posting == Len(outbox') > Len(outbox)

\* The step is the worker taking the request at the head of its inbox (the
\* caller's teardown, which empties the inbox, ends the worker).
Taking == inbox # <<>> /\ inbox' = Tail(inbox) /\ worker' = worker

\* C28: the worker answers every request with exactly one response carrying
\* the request's id: a condition thrown while handling it (a failed open
\* included) becomes an error response, after which the worker still serves
\* later requests with its registry intact.
\* - a request taken from the inbox is answered in the same step, or is an
\*   open that is suspended;
\* - a response posted is one response, and answers the request just taken or
\*   a suspended open, which is then no longer suspended;
\* - a suspended open leaves only by being answered (or with the worker);
\* - an error response leaves the registry and the handles as they were;
\* - the worker can always handle the request at the head of its inbox.
C28_OneResponsePerRequest ==
  /\ [][/\ Taking =>
              (\/ /\ Head(inbox).action = "open"
                  /\ opening' = opening \cup {Head(inbox)}
                  /\ Head(inbox) \notin opening
                  /\ outbox' = outbox
               \/ /\ outbox' = Append(outbox, Answer)
                  /\ Answer.id = Head(inbox).id
                  /\ Answer.action = Head(inbox).action
                  /\ opening' = opening)
        /\ Posting =>
              (/\ outbox' = Append(outbox, Answer)
               /\ \/ Taking /\ Answer.id = Head(inbox).id
                  \/ /\ inbox' = inbox
                     /\ \E r \in opening : /\ Answer.id = r.id
                                            /\ Answer.action = "open"
                                            /\ opening' = opening \ {r}
               /\ (Answer.err # "" => UNCHANGED <<accessHandleMap, handles>>))
        /\ (opening' # opening /\ worker' = worker) => (Taking \/ Posting)
       ]_vars
  /\ [](inbox # <<>> => ENABLED (WorkerOpenBegin \/ WorkerHandle))

\* An open has failed and its error response has been delivered, and the
\* worker has since answered a later request with a result.
C28_Witness ==
  /\ faults = 0
  /\ opens = 2
  /\ openCount = 2
  /\ nextId = 4
  /\ Cardinality(handles) = 1
  /\ Len(outbox) = 1
  /\ outbox[1].action = "getSize"
  /\ outbox[1].err = ""

\* The messages of a queue that are not about an open are in the order of
\* their ids, which is the order in which the caller submitted them.
InSubmissionOrder(box) ==
  \A i, j \in 1..Len(box) :
    (i < j /\ box[i].action # "open" /\ box[j].action # "open") => box[i].id < box[j].id

\* C29 (as stated): the worker handles one message at a time: it does not
\* begin handling a request before the response to the previously received
\* request has been posted.
C29_OneMessageAtATime ==
  [][Taking => opening = {}]_vars

\* C29 (amended): a request other than open is handled in one step, answered
\* as it is taken, so the responses to such requests are posted in the order
\* in which the requests were submitted; an open is suspended until the
\* provider has granted its handle and may be answered after later requests.
C29_NonOpenAnsweredInOrder ==
  /\ [][(Taking /\ Head(inbox).action # "open")
          => (Posting /\ Answer.id = Head(inbox).id /\ opening' = opening)]_vars
  /\ [](/\ InSubmissionOrder(inbox)
        /\ InSubmissionOrder(outbox)
        /\ \A i \in 1..Len(inbox), j \in 1..Len(outbox) :
             (inbox[i].action # "open" /\ outbox[j].action # "open")
               => outbox[j].id < inbox[i].id)

\* A request received later than a suspended open has been answered before it.
C29_Witness ==
  \E r \in opening : \E k \in 1..Len(outbox) :
    outbox[k].action # "open" /\ outbox[k].id > r.id

\* C30: a response settles only the pending request whose id equals the
\* response's id; a response whose id is not in the pending-request table
\* settles nothing and changes neither the table nor the open count.
\* (when the response is the close that brings the open count to zero, the
\* teardown that follows rejects what else is pending: claim C1)
C30_SettlesOnlyItsRequest ==
  [][Delivering =>
       LET m == Head(outbox) IN
       /\ m.id \notin PendingIds =>
            /\ settled' = <<>>
            /\ UNCHANGED <<deferredMap, openCount, settles, sess, worker>>
       /\ m.id \in PendingIds =>
            /\ settled'[1].id = m.id
            /\ settles'[m.id] = settles[m.id] + 1
            /\ m.id \notin {d.id : d \in deferredMap'}
            /\ worker' =>
                 /\ Len(settled') = 1
                 /\ deferredMap' = {d \in deferredMap : d.id # m.id}
                 /\ \A i \in Ids \ {m.id} : settles'[i] = settles[i]
    ]_vars

\* The response to an open that the fault handler had rejected has been
\* delivered: its id was not in the table, and it was not counted.
C30_Witness ==
  /\ nextId = 2
  /\ faults = 1
  /\ worker
  /\ settles[1] = 1
  /\ inbox = <<>>
  /\ opening = {}
  /\ outbox = <<>>
  /\ openCount = 0
  /\ settled = <<>>

\* Two writes of one session that carry no explicit offset, issued one right
\* after the other, the first not yet answered when the second was issued.
IssuedBackToBack(d1, d2) ==
  /\ d1.action = "write" /\ d2.action = "write"
  /\ d1.sess = d2.sess
  /\ d1.atArg = NoAt /\ d2.atArg = NoAt
  /\ d2.id = d1.id + 1

\* C31: writes issued on one session without an explicit offset are placed
\* back to back: each starts where the previously issued write ended, also
\* when it is issued before the response to the previous write has arrived.
C31_WritesBackToBack ==
  \A d1, d2 \in deferredMap :
    IssuedBackToBack(d1, d2) => d2.at = d1.at + Len(d1.data)

\* How many segments deep the path is after each of the segments raw, from
\* depth n: a name goes one down, `..` one up unless at the root.
RECURSIVE depthOf(_, _)
depthOf(raw, n) ==
  IF raw = <<>> THEN n
  ELSE depthOf(Tail(raw),
         IF Head(raw) = <<".">> THEN n
         ELSE IF Head(raw) = <<".", ".">> THEN (IF n > 0 THEN n - 1 ELSE 0)
         ELSE n + 1)

\* The non-empty segments of the path string that was given.
GivenSegments ==
  SelectSeq(split(trim(IF parsed.path = <<>> THEN <<"/">> ELSE parsed.path)),
            LAMBDA seg : Len(seg) > 0)

\* C32: the path normaliser always returns a canonical form: fullPath starts
\* with '/', has no empty, '.' or '..' segment, is '/' joined with parents
\* followed by name, and an input that resolves to the root or above it yields
\* fullPath '/', no name and empty parents.
C32_CanonicalForm ==
  parsed.pc # "given" =>
    LET r == parsed.first
        segs == IF r.name = <<>> THEN r.parents ELSE Append(r.parents, r.name)
        pieces == split(r.fullPath)
    IN /\ r.fullPath # <<>> /\ r.fullPath[1] = "/"
       /\ \/ r.fullPath = <<"/">> /\ segs = <<>>
          \/ /\ pieces[1] = <<>>
             /\ Tail(pieces) = segs
             /\ segs # <<>>
             /\ \A k \in 1..Len(segs) : segs[k] \notin {<<>>, <<".">>, <<".", ".">>}
       /\ r.name = <<>> => r.parents = <<>>
       /\ Len(segs) = depthOf(GivenSegments, 0)

\* A path string that begins with `..` has been normalised: the `..` popped
\* nothing and the name after it is the whole path.
C32_Witness ==
  /\ parsed.pc = "parsed"
  /\ parsed.path = <<".", ".", "/", "a">>
  /\ parsed.first.fullPath = <<"/", "a">>

\* C33: the open count is never negative, and whenever no worker context
\* exists the open count is 0 and the pending-request table is empty.
C33_LifecycleInvariant ==
  /\ openCount >= 0
  /\ ~worker => (openCount = 0 /\ deferredMap = {})

\* The worker context has been torn down by the close that brought the open
\* count to zero while another request was pending.
C33_Witness ==
  /\ ~worker
  /\ openCount = 0
  /\ deferredMap = {}
  /\ nextId = 3
  /\ Len(settled) = 1
  /\ settled[1].action = "close"
  /\ settled[1].how = "ok"

\* The step handles the response to the pending close `c` that brings the open
\* count to zero.
ClosesLast(c) ==
  /\ Delivering
  /\ c.id = Head(outbox).id
  /\ c.action = "close"
  /\ Counted("close", openCount) <= 0

\* C34: when the close response that brings the open count to zero is handled
\* while an open for another path is pending, the worker is terminated and that
\* open is rejected with AbortError: its entry is gone and no session is
\* established for it.
C34_PendingOpenAborted ==
  [][ \A c, d \in deferredMap :
        (/\ ClosesLast(c)
         /\ d.action = "open"
         /\ d.path # c.path)
        => (/\ worker' = FALSE
            /\ SettledAs(settled', d.id, "AbortError")
            /\ d.id \notin {e.id : e \in deferredMap'}
            /\ sess'[d.sess] = NoSess) ]_vars

\* The last close was answered while the open of the other path was pending.
C34_Witness ==
  /\ worker = FALSE
  /\ Len(settled) = 2
  /\ settled[1].action = "close"
  /\ settled[2].action = "open"
  /\ settled[2].how = "AbortError"
  /\ settled[2].path # settled[1].path
  /\ sess[settled[2].sess] = NoSess

\* The step is an openFile call made after a teardown.
OpensAfterTeardown == ~worker /\ opens > 0 /\ opens' = opens + 1

\* C35: after a teardown the next open creates a fresh worker context, starting
\* from open count 0 and an empty pending-request table, and the operations of
\* the session it returns succeed.
C35_ReusableAfterTeardown ==
  /\ [][ OpensAfterTeardown
         => (/\ openCount = 0 /\ deferredMap = {}
             /\ worker'
             /\ openCount' = 0
             /\ Cardinality(deferredMap') = 1
             /\ \A d \in deferredMap' : d.action = "open" /\ inbox' = <<d>>
             /\ outbox' = <<>>
             /\ opening' = {} /\ handles' = {}
             /\ \A p \in Paths : accessHandleMap'[p] = 0) ]_vars
  /\ [](\A k \in 1..Len(settled) : settled[k].sess = 2 => settled[k].how = "ok")

\* An operation of the session opened after the teardown has succeeded.
C35_Witness ==
  /\ sess[1].closed
  /\ sess[2].live
  /\ Len(settled) = 1
  /\ settled[1].sess = 2
  /\ settled[1].action = "getSize"
  /\ settled[1].how = "ok"

\* The step is a send made while no worker context exists: with no worker nothing
\* is in flight, and openFile and the constructors are the steps that count a
\* session.
SendsWithoutWorker == ~worker /\ opens' = opens

\* C36: a send issued while no worker context exists (before the first open or
\* after a teardown) fails with InvalidStateError, creates no worker, posts no
\* message and adds no entry to the pending-request table.
C36_SendWithoutWorkerThrows ==
  [][ SendsWithoutWorker
      => (/\ Len(settled') = 1
          /\ settled'[1].how = "InvalidStateError"
          /\ worker' = FALSE
          /\ inbox' = inbox
          /\ deferredMap' = deferredMap
          /\ nextId' = nextId) ]_vars

\* A method of a session object was called before anything was opened.
C36_Witness ==
  /\ ~worker
  /\ nextId = 1
  /\ Len(settled) = 1
  /\ settled[1].how = "InvalidStateError"
  /\ deferredMap = {}
  /\ inbox = <<>>

\* The handles the provider has granted on path p and that are not closed.
Granted(p) == {h \in handles : h.path = p}

\* C37: the registry holds one handle per path: when two sessions are open on
\* the same path, the close of one removes the path's entry while the other
\* session's handle stays granted, and from then on every operation on the path
\* is answered with the invalid-access-handle error, which is how the other
\* session's call settles.
C37_OneHandlePerPath ==
  /\ [][ (/\ Answering
          /\ Head(inbox).action = "close"
          /\ Cardinality(Granted(Head(inbox).path)) = 2)
         => (/\ accessHandleMap'[Head(inbox).path] = 0
             /\ Cardinality({h \in handles' : h.path = Head(inbox).path}) = 1
             /\ Answer.err = "") ]_vars
  /\ [][ (/\ Answering
          /\ Head(inbox).action # "open"
          /\ Granted(Head(inbox).path) # {}
          /\ accessHandleMap[Head(inbox).path] = 0)
         => (/\ Answer.err = "InvalidAccessHandle"
             /\ accessHandleMap'[Head(inbox).path] = 0
             /\ handles' = handles) ]_vars
  /\ [][ \A r \in deferredMap :
           (/\ Delivering
            /\ r.id = Head(outbox).id
            /\ Head(outbox).err = "InvalidAccessHandle")
           => SettledAs(settled', r.id, "InvalidAccessHandle") ]_vars

\* Two sessions were opened read-only on one path, one of them was closed, and
\* a call of the other one has been rejected for want of a registered handle.
C37_Witness ==
  /\ worker
  /\ openCount = 1
  /\ sess[1].path = sess[2].path
  /\ sess[1].closed /\ ~sess[2].closed
  /\ Cardinality(Granted(sess[2].path)) = 1
  /\ accessHandleMap[sess[2].path] = 0
  /\ Len(settled) = 1
  /\ settled[1].sess = 2
  /\ settled[1].action = "getSize"
  /\ settled[1].how = "InvalidAccessHandle"

\* The step hands session s the result of one of its calls of the given actions.
Resolves(s, actions) ==
  /\ Delivering
  /\ Head(outbox).id \in PendingIds
  /\ Head(outbox).err = ""
  /\ Awaited.sess = s
  /\ Awaited.action \in actions

\* Some call of session s to read, write or truncate is rejected or throws.
Rejects(evs, s) ==
  \E k \in 1..Len(evs) : /\ evs[k].sess = s
                          /\ evs[k].action \in {"read", "write", "truncate"}
                          /\ evs[k].how # "ok"

\* C38: a read, write or truncate that is rejected (error response, abort on
\* teardown, context fault) leaves both cursors of its session unchanged; the
\* read cursor changes only when a read of the session resolves and the write
\* cursor only when a write or truncate of the session resolves.
C38_RejectionKeepsCursors ==
  [][ \A s \in Sessions :
        /\ Rejects(settled', s)
             => (/\ sess'[s].prevReadOffset = sess[s].prevReadOffset
                 /\ sess'[s].prevWriteOffset = sess[s].prevWriteOffset)
        /\ sess'[s].prevReadOffset # sess[s].prevReadOffset
             => Resolves(s, {"read"})
        /\ sess'[s].prevWriteOffset # sess[s].prevWriteOffset
             => Resolves(s, {"write", "truncate"}) ]_vars

\* With both cursors at 1, a write at the quota has been refused by the
\* provider and the cursors are where they were.
C38_Witness ==
  /\ Len(settled) = 1
  /\ settled[1].action = "write"
  /\ settled[1].atArg = Quota
  /\ settled[1].how = "QuotaExceededError"
  /\ sess[1].prevWriteOffset = 1
  /\ sess[1].prevReadOffset = 1

====
